---------------------------- MODULE Spec2Model ----------------------------
(***************************************************************************)
(* Obstacle index of the scrolling car game: the AVL tree keyed by (x, y)  *)
(* (src/src/model/avlTree.py) and the ObstacleManager that keeps the tree, *)
(* the active list and the sprite cache together                           *)
(* (src/src/game/obstacleManager.py).                                      *)
(*                                                                         *)
(* Node objects live in a heap, `nodes`, a function from node identities   *)
(* to their fields; a pointer is a node identity or Nil (Python's None).   *)
(* Every tree method is an operator from the heap before the call to the   *)
(* heap after it, written statement by statement from the Python text.     *)
(***************************************************************************)
EXTENDS Integers, Sequences, FiniteSets

VARIABLES
    root,     \* avlTree.root: a node identity or Nil
    nodes,    \* the heap of avlNode objects: identity -> fields
    active,   \* ObstacleManager._active_obstacles: sequence of obstacle records
    cache,    \* ObstacleManager._sprite_cache, the shared SPRITE_CACHE: path -> surface
    last,     \* the call that ended last: its name, its key argument, its result
    ledger,   \* history: key -> payload of the insert that added the key
    engine,   \* the GameEngine object's own fields, None while there is no engine
    script    \* testAvlTree.py: how far the test got and which of its calls it
              \* made, None while no test runs

vars == <<root, nodes, active, cache, last, ledger, engine, script>>

(***************************************************************************)
(* Bounds of the explored inputs.                                          *)
(***************************************************************************)
\* number of distinct coordinate keys offered to the tree on its own
NumKeys == 8
\* number of distinct coordinate keys offered to the tree with varying payloads
NumMapKeys == 4

Nil == <<>>
None == "None"

Max(a, b) == IF a >= b THEN a ELSE b

(***************************************************************************)
(* Python floats.  A float('nan') is a float object without a value: it is *)
(* neither less than, nor greater than, nor equal to any float, itself     *)
(* included.  The i-th NaN object is kept as the number 1000000 + i, above *)
(* every coordinate in use; two NaN objects are two numbers.               *)
(***************************************************************************)
NaNObject(i) == 1000000 + i

IsNaN(h) == h > 1000000

\* a < b, a <= b and a == b on floats
FloatLt(a, b) == ~IsNaN(a) /\ ~IsNaN(b) /\ a < b
FloatLe(a, b) == ~IsNaN(a) /\ ~IsNaN(b) /\ a <= b
FloatEq(a, b) == ~IsNaN(a) /\ ~IsNaN(b) /\ a = b

(***************************************************************************)
(* Coordinate keys.  Python compares the tuples (x, y) lexicographically:  *)
(* it looks for the first position whose items are neither the same object *)
(* nor equal, and compares these two items.  So a key equals itself also   *)
(* when its x is a NaN, and (x, y) == key in _search is equality of keys.  *)
(***************************************************************************)
\* a variant of the key comparison that looks at x alone
KeyLtByX(a, b) == a[1] < b[1]

KeyLt(a, b) == IF a[1] # b[1] THEN FloatLt(a[1], b[1]) ELSE a[2] < b[2]

\* the i-th key offered to the tree: (1,2), (1,1), (2,2), (2,1), (3,2), ...
\* so that neighbours tie on x and the order of y decides
KeyAt(i) == <<(i + 1) \div 2, (i % 2) + 1>>

TreeKeys == {KeyAt(i) : i \in 1..NumKeys}
MapKeys == {KeyAt(i) : i \in 1..NumMapKeys}
Payloads == {"p", "q"}

(***************************************************************************)
(* avlNode(x, y, obstacle): a fresh node object.                           *)
(***************************************************************************)
NewNode(k, obstacle) ==
    [key |-> k, obstacle |-> obstacle, left |-> Nil, right |-> Nil,
     parent |-> Nil, height |-> 1]

\* the identity of a fresh object: distinct from every live object's
NewId(N, k) ==
    LET n == CHOOSE i \in 0..Cardinality(DOMAIN N) :
                 /\ <<k[1], k[2], i>> \notin DOMAIN N
                 /\ \A j \in 0..(i - 1) : <<k[1], k[2], j>> \in DOMAIN N
    IN <<k[1], k[2], n>>

Alloc(N, id, rec) == [i \in DOMAIN N \cup {id} |-> IF i = id THEN rec ELSE N[i]]

Free(N, id) == [i \in DOMAIN N \ {id} |-> N[i]]

(***************************************************************************)
(* Field assignments on a node object.  An assignment guarded by           *)
(* `if child:` in the Python text is SetParentIf.                          *)
(***************************************************************************)
SetLeft(N, node, v) == [N EXCEPT ![node].left = v]
SetRight(N, node, v) == [N EXCEPT ![node].right = v]
SetParent(N, node, v) == [N EXCEPT ![node].parent = v]
SetParentIf(N, node, v) == IF node # Nil THEN SetParent(N, node, v) ELSE N

Tree(rt, N) == [root |-> rt, N |-> N]

(***************************************************************************)
(* avlTree.getHeight, getBalance                                           *)
(***************************************************************************)
getHeight(N, node) == IF node = Nil THEN 0 ELSE N[node].height

\* a variant of getBalance with the subtraction turned round
getBalanceRightMinusLeft(N, node) ==
    IF node = Nil THEN 0
    ELSE getHeight(N, N[node].right) - getHeight(N, N[node].left)

getBalance(N, node) ==
    IF node = Nil THEN 0
    ELSE getHeight(N, N[node].left) - getHeight(N, N[node].right)

\* node.height = 1 + max(getHeight(node.left), getHeight(node.right))
UpdateHeight(N, node) ==
    [N EXCEPT ![node].height =
        1 + Max(getHeight(N, N[node].left), getHeight(N, N[node].right))]

(***************************************************************************)
(* avlTree.rightRotation, leftRotation: the heap after, and the new root   *)
(* of the rotated subtree.  Innermost first, the statements are            *)
(*     newRoot.right = node;  node.left = temp                             *)
(*     if temp: temp.parent = node                                         *)
(*     newRoot.parent = node.parent;  node.parent = newRoot                *)
(*     node.height = ...;  newRoot.height = ...                            *)
(***************************************************************************)
\* a variant of the right rotation without  if temp: temp.parent = node
RotateRightTempKeepsParent(N, node, newRoot, temp) ==
    UpdateHeight(
      UpdateHeight(
        SetParent(
          SetParent(
            SetLeft(SetRight(N, newRoot, node), node, temp),
            newRoot, N[node].parent),
          node, newRoot),
        node),
      newRoot)

RotateRight(N, node, newRoot, temp) ==
    UpdateHeight(
      UpdateHeight(
        SetParent(
          SetParent(
            SetParentIf(
              SetLeft(SetRight(N, newRoot, node), node, temp),
              temp, node),
            newRoot, N[node].parent),
          node, newRoot),
        node),
      newRoot)

\* a variant of rightRotation that leaves the subtree as it is
rightRotationSkipped(N, node) == [N |-> N, r |-> node]

rightRotation(N, node) ==
    [N |-> RotateRight(N, node, N[node].left, N[N[node].left].right),
     r |-> N[node].left]

RotateLeft(N, node, newRoot, temp) ==
    UpdateHeight(
      UpdateHeight(
        SetParent(
          SetParent(
            SetParentIf(
              SetRight(SetLeft(N, newRoot, node), node, temp),
              temp, node),
            newRoot, N[node].parent),
          node, newRoot),
        node),
      newRoot)

\* a variant of leftRotation that leaves the subtree as it is
leftRotationSkipped(N, node) == [N |-> N, r |-> node]

leftRotation(N, node) ==
    [N |-> RotateLeft(N, node, N[node].right, N[N[node].right].left),
     r |-> N[node].right]

(***************************************************************************)
(* avlTree.imbalanceCases: rebalance the subtree rooted at node from the   *)
(* cached heights; the heap after and the subtree's new root.              *)
(***************************************************************************)
\* node.left = <rot>;  if node.left: node.left.parent = node
AttachLeft(rot, node) == SetParentIf(SetLeft(rot.N, node, rot.r), rot.r, node)

\* node.right = <rot>;  if node.right: node.right.parent = node
AttachRight(rot, node) == SetParentIf(SetRight(rot.N, node, rot.r), rot.r, node)

\* a variant of imbalanceCases that never rotates the child first
imbalanceCasesSingle(N, node) ==
    IF node = Nil THEN [N |-> N, r |-> node]
    ELSE IF getBalance(N, node) > 1 THEN rightRotation(N, node)
    ELSE IF getBalance(N, node) < -1 THEN leftRotation(N, node)
    ELSE [N |-> N, r |-> node]

imbalanceCases(N, node) ==
    IF node = Nil THEN [N |-> N, r |-> node]
    ELSE IF getBalance(N, node) > 1 THEN
        IF getBalance(N, N[node].left) >= 0
        THEN rightRotation(N, node)
        ELSE rightRotation(AttachLeft(leftRotation(N, N[node].left), node), node)
    ELSE IF getBalance(N, node) < -1 THEN
        IF getBalance(N, N[node].right) <= 0
        THEN leftRotation(N, node)
        ELSE leftRotation(AttachRight(rightRotation(N, N[node].right), node), node)
    ELSE [N |-> N, r |-> node]

(***************************************************************************)
(* avlTree.search / _search                                                *)
(***************************************************************************)
\* a variant of _search that returns the node the descent ended at instead
\* of None
RECURSIVE _searchNearest(_, _, _)
_searchNearest(N, currentNode, k) ==
    IF N[currentNode].key = k THEN currentNode
    ELSE IF KeyLt(k, N[currentNode].key)
         THEN IF N[currentNode].left = Nil THEN currentNode
              ELSE _searchNearest(N, N[currentNode].left, k)
         ELSE IF N[currentNode].right = Nil THEN currentNode
              ELSE _searchNearest(N, N[currentNode].right, k)

RECURSIVE _search(_, _, _)
_search(N, currentNode, k) ==
    IF currentNode = Nil \/ N[currentNode].key = k THEN currentNode
    ELSE IF KeyLt(k, N[currentNode].key)
         THEN _search(N, N[currentNode].left, k)
         ELSE _search(N, N[currentNode].right, k)

search(rt, N, k) == IF rt = Nil THEN Nil ELSE _search(N, rt, k)

(***************************************************************************)
(* avlTree.insert / _insert                                                *)
(***************************************************************************)
\* return avlNode(x, y, obstacle)
NewLeaf(N, id, k, obstacle) ==
    [N |-> Alloc(N, id, NewNode(k, obstacle)), r |-> id]

\* what _insert does at node once the recursive call into a child returned
\* sub: link the child, refresh the height, rebalance
InsertReturn(sub, node, goLeft) ==
    imbalanceCases(
        UpdateHeight(
            IF goLeft THEN AttachLeft(sub, node) ELSE AttachRight(sub, node),
            node),
        node)

RECURSIVE _insert(_, _, _, _)
_insert(N, node, k, obstacle) ==
    IF node = Nil THEN NewLeaf(N, NewId(N, k), k, obstacle)
    ELSE IF KeyLt(k, N[node].key)
         THEN InsertReturn(_insert(N, N[node].left, k, obstacle), node, TRUE)
         ELSE InsertReturn(_insert(N, N[node].right, k, obstacle), node, FALSE)

RootOf(res) == Tree(res.r, res.N)

\* the tree (root and heap) after insert(x, y, obstacle)
\* a variant of insert that stores the new payload under a key already present
insertOverwrite(t, k, obstacle) ==
    IF search(t.root, t.N, k) # Nil
    THEN Tree(t.root, [t.N EXCEPT ![search(t.root, t.N, k)].obstacle = obstacle])
    ELSE IF t.root = Nil
         THEN RootOf(NewLeaf(t.N, NewId(t.N, k), k, obstacle))
         ELSE RootOf(_insert(t.N, t.root, k, obstacle))

insert(t, k, obstacle) ==
    IF search(t.root, t.N, k) # Nil THEN t
    ELSE IF t.root = Nil
         THEN RootOf(NewLeaf(t.N, NewId(t.N, k), k, obstacle))
         ELSE RootOf(_insert(t.N, t.root, k, obstacle))

(***************************************************************************)
(* avlTree._findPredecessor, _replaceNode                                  *)
(***************************************************************************)
RECURSIVE Rightmost(_, _)
Rightmost(N, current) ==
    IF N[current].right # Nil THEN Rightmost(N, N[current].right) ELSE current

\* a variant of _findPredecessor without the descent to the right
_findPredecessorNoDescent(N, node) == N[node].left

_findPredecessor(N, node) ==
    IF N[node].left # Nil THEN Rightmost(N, N[node].left) ELSE Nil

\* the parent's child pointer that holds oldNode now holds newNode
ReplaceInParent(N, p, oldNode, newNode) ==
    IF oldNode = N[p].left THEN SetLeft(N, p, newNode)
    ELSE SetRight(N, p, newNode)

_replaceNode(t, oldNode, newNode) ==
    IF t.N[oldNode].parent = Nil
    THEN Tree(newNode, SetParentIf(t.N, newNode, t.N[oldNode].parent))
    ELSE Tree(t.root,
              SetParentIf(ReplaceInParent(t.N, t.N[oldNode].parent, oldNode, newNode),
                          newNode, t.N[oldNode].parent))

(***************************************************************************)
(* avlTree._rebalanceUp: the walk from node to the root.                   *)
(***************************************************************************)
\* attach new_subroot (res.r) to parent, or make it the tree's root
Reattach(rt, res, node, parent) ==
    IF parent = Nil
    THEN Tree(res.r, SetParentIf(res.N, res.r, Nil))
    ELSE Tree(rt, SetParentIf(
                     IF res.N[parent].left = node
                     THEN SetLeft(res.N, parent, res.r)
                     ELSE SetRight(res.N, parent, res.r),
                     res.r, parent))

\* one turn of the while loop: update the height, remember the parent,
\* rebalance the subtree, attach its new root
RebalanceAt(t, node) ==
    Reattach(t.root, imbalanceCases(UpdateHeight(t.N, node), node),
             node, t.N[node].parent)

\* a variant of the walk that returns after its first rotation
RECURSIVE _rebalanceUpUntilRotation(_, _)
_rebalanceUpUntilRotation(t, node) ==
    IF node = Nil THEN t
    ELSE IF imbalanceCases(UpdateHeight(t.N, node), node).r # node
         THEN RebalanceAt(t, node)
         ELSE _rebalanceUpUntilRotation(RebalanceAt(t, node), t.N[node].parent)

\* while node: <turn>; node = parent   (parent as read before the rebalance)
RECURSIVE _rebalanceUp(_, _)
_rebalanceUp(t, node) ==
    IF node = Nil THEN t
    ELSE _rebalanceUp(RebalanceAt(t, node), t.N[node].parent)

(***************************************************************************)
(* avlTree.delete / _delete                                                *)
(***************************************************************************)
\* Case 1: leaf.  parent = nodeToDelete.parent is read before the unlink.
DeleteLeaf(t, nodeToDelete) ==
    IF t.N[nodeToDelete].parent # Nil
    THEN _rebalanceUp(_replaceNode(t, nodeToDelete, Nil), t.N[nodeToDelete].parent)
    ELSE _replaceNode(t, nodeToDelete, Nil)

\* predecessor.left = nodeToDelete.left;  predecessor.left.parent = predecessor
AdoptLeft(t, nodeToDelete, predecessor) ==
    Tree(t.root,
         SetParent(SetLeft(t.N, predecessor, t.N[nodeToDelete].left),
                   t.N[nodeToDelete].left, predecessor))

\* a variant of the two-children case that leaves predecessor.right alone
KeepRight(t, nodeToDelete, predecessor) == t

\* predecessor.right = nodeToDelete.right;  predecessor.right.parent = predecessor
AdoptRight(t, nodeToDelete, predecessor) ==
    Tree(t.root,
         SetParent(SetRight(t.N, predecessor, t.N[nodeToDelete].right),
                   t.N[nodeToDelete].right, predecessor))

\* if predecessor.parent != nodeToDelete: splice the predecessor out of its
\* place and hand it nodeToDelete's left subtree
DetachPredecessor(t, nodeToDelete, predecessor) ==
    IF t.N[predecessor].parent # nodeToDelete
    THEN AdoptLeft(_replaceNode(t, predecessor, t.N[predecessor].left),
                   nodeToDelete, predecessor)
    ELSE t

\* the node the two-children case starts its rebalancing walk at
TwoChildrenWalkStart(t, nodeToDelete, predecessor) == predecessor

\* Case 2: two children, once the predecessor is known
GraftPredecessor(t, nodeToDelete, predecessor) ==
    _rebalanceUp(
        AdoptRight(
            _replaceNode(DetachPredecessor(t, nodeToDelete, predecessor),
                         nodeToDelete, predecessor),
            nodeToDelete, predecessor),
        TwoChildrenWalkStart(t, nodeToDelete, predecessor))

DeleteTwoChildren(t, nodeToDelete) ==
    GraftPredecessor(t, nodeToDelete, _findPredecessor(t.N, nodeToDelete))

\* Case 3: one child
OnlyChild(N, nodeToDelete) ==
    IF N[nodeToDelete].left # Nil
    THEN N[nodeToDelete].left ELSE N[nodeToDelete].right

DeleteOneChild(t, nodeToDelete) ==
    _rebalanceUp(_replaceNode(t, nodeToDelete, OnlyChild(t.N, nodeToDelete)),
                 OnlyChild(t.N, nodeToDelete))

_delete(t, nodeToDelete) ==
    IF t.N[nodeToDelete].left = Nil /\ t.N[nodeToDelete].right = Nil
    THEN DeleteLeaf(t, nodeToDelete)
    ELSE IF t.N[nodeToDelete].left # Nil /\ t.N[nodeToDelete].right # Nil
         THEN DeleteTwoChildren(t, nodeToDelete)
         ELSE DeleteOneChild(t, nodeToDelete)

\* the unlinked node object is garbage once _delete returned
Unlinked(t, nodeToDelete) == Tree(t.root, Free(t.N, nodeToDelete))

\* the tree after delete(x, y)
delete(t, k) ==
    IF search(t.root, t.N, k) = Nil THEN t
    ELSE Unlinked(_delete(t, search(t.root, t.N, k)), search(t.root, t.N, k))

(***************************************************************************)
(* Exceptions.  A rotation reads newRoot.right (newRoot.left) of the child *)
(* it promotes: with no such child the call raises AttributeError.         *)
(***************************************************************************)
\* the heap imbalanceCases is called on when _insert is back at node
InsertLinked(sub, node, goLeft) ==
    UpdateHeight(IF goLeft THEN AttachLeft(sub, node) ELSE AttachRight(sub, node),
                 node)

\* the tree the two-children case has built when it calls _rebalanceUp
Grafted(t, nodeToDelete) ==
    AdoptRight(
        _replaceNode(DetachPredecessor(t, nodeToDelete,
                                       _findPredecessor(t.N, nodeToDelete)),
                     nodeToDelete, _findPredecessor(t.N, nodeToDelete)),
        nodeToDelete, _findPredecessor(t.N, nodeToDelete))

\* the node _delete hands to _rebalanceUp: the former parent of a leaf, the
\* predecessor in its new place, the promoted only child
WalkStart(t, nodeToDelete) ==
    IF t.N[nodeToDelete].left = Nil /\ t.N[nodeToDelete].right = Nil
    THEN t.N[nodeToDelete].parent
    ELSE IF t.N[nodeToDelete].left # Nil /\ t.N[nodeToDelete].right # Nil
         THEN _findPredecessor(t.N, nodeToDelete)
         ELSE OnlyChild(t.N, nodeToDelete)

\* the tree _delete hands to _rebalanceUp
WalkTree(t, nodeToDelete) ==
    IF t.N[nodeToDelete].left = Nil /\ t.N[nodeToDelete].right = Nil
    THEN _replaceNode(t, nodeToDelete, Nil)
    ELSE IF t.N[nodeToDelete].left # Nil /\ t.N[nodeToDelete].right # Nil
         THEN Grafted(t, nodeToDelete)
         ELSE _replaceNode(t, nodeToDelete, OnlyChild(t.N, nodeToDelete))

\* imbalanceCases(node) would raise: the rotation it selects from the
\* cached heights promotes a child, or for a double rotation a grandchild,
\* that is None
Unsafe(N, node) ==
    /\ node # Nil
    /\ \/ /\ getBalance(N, node) > 1
          /\ \/ N[node].left = Nil
             \/ getBalance(N, N[node].left) < 0 /\ N[N[node].left].right = Nil
       \/ /\ getBalance(N, node) < -1
          /\ \/ N[node].right = Nil
             \/ getBalance(N, N[node].right) > 0 /\ N[N[node].right].left = Nil

\* _insert(node, x, y, obstacle) raises in one of its imbalanceCases calls
RECURSIVE _insertRaises(_, _, _, _)
_insertRaises(N, node, k, obstacle) ==
    IF node = Nil THEN FALSE
    ELSE IF KeyLt(k, N[node].key)
         THEN \/ _insertRaises(N, N[node].left, k, obstacle)
              \/ Unsafe(InsertLinked(_insert(N, N[node].left, k, obstacle),
                                     node, TRUE), node)
         ELSE \/ _insertRaises(N, N[node].right, k, obstacle)
              \/ Unsafe(InsertLinked(_insert(N, N[node].right, k, obstacle),
                                     node, FALSE), node)

insertRaises(t, k, obstacle) ==
    /\ search(t.root, t.N, k) = Nil
    /\ t.root # Nil
    /\ _insertRaises(t.N, t.root, k, obstacle)

\* _rebalanceUp(node) raises in one of its imbalanceCases calls
RECURSIVE _rebalanceUpRaises(_, _)
_rebalanceUpRaises(t, node) ==
    IF node = Nil THEN FALSE
    ELSE \/ Unsafe(UpdateHeight(t.N, node), node)
         \/ _rebalanceUpRaises(RebalanceAt(t, node), t.N[node].parent)

deleteRaises(t, k) ==
    /\ search(t.root, t.N, k) # Nil
    /\ _rebalanceUpRaises(WalkTree(t, search(t.root, t.N, k)),
                          WalkStart(t, search(t.root, t.N, k)))

\* the heap at the moment _insert(node, x, y, obstacle) raises: the calls
\* below the raising one have returned, the raising one has linked its child
\* and rewritten its height; the callers above have assigned nothing yet
RECURSIVE _insertRaised(_, _, _, _)
_insertRaised(N, node, k, obstacle) ==
    IF KeyLt(k, N[node].key)
    THEN IF _insertRaises(N, N[node].left, k, obstacle)
         THEN _insertRaised(N, N[node].left, k, obstacle)
         ELSE InsertLinked(_insert(N, N[node].left, k, obstacle), node, TRUE)
    ELSE IF _insertRaises(N, N[node].right, k, obstacle)
         THEN _insertRaised(N, N[node].right, k, obstacle)
         ELSE InsertLinked(_insert(N, N[node].right, k, obstacle), node, FALSE)

\* the tree after an insert that raised: self.root is not assigned
insertRaised(t, k, obstacle) ==
    Tree(t.root, _insertRaised(t.N, t.root, k, obstacle))

\* the tree at the moment _rebalanceUp(node) raises: the turns before are
\* done, the raising turn has rewritten the height of its node
RECURSIVE _rebalanceUpRaised(_, _)
_rebalanceUpRaised(t, node) ==
    IF Unsafe(UpdateHeight(t.N, node), node)
    THEN Tree(t.root, UpdateHeight(t.N, node))
    ELSE _rebalanceUpRaised(RebalanceAt(t, node), t.N[node].parent)

\* the tree after a delete that raised: the node is unlinked already
deleteRaised(t, k) ==
    Unlinked(_rebalanceUpRaised(WalkTree(t, search(t.root, t.N, k)),
                                WalkStart(t, search(t.root, t.N, k))),
             search(t.root, t.N, k))

(***************************************************************************)
(* What a traversal of the linked structure sees.                          *)
(***************************************************************************)
RECURSIVE inorderTraversal(_, _)
inorderTraversal(N, node) ==
    IF node = Nil THEN <<>>
    ELSE inorderTraversal(N, N[node].left) \o <<N[node].key>>
         \o inorderTraversal(N, N[node].right)

RECURSIVE Reach(_, _)
Reach(N, node) ==
    IF node = Nil THEN {}
    ELSE {node} \cup Reach(N, N[node].left) \cup Reach(N, N[node].right)

\* structurally computed height of the subtree at node
RECURSIVE RealHeight(_, _)
RealHeight(N, node) ==
    IF node = Nil THEN 0
    ELSE 1 + Max(RealHeight(N, N[node].left), RealHeight(N, N[node].right))

Range(s) == {s[i] : i \in 1..Len(s)}

KeySet == Range(inorderTraversal(nodes, root))

(***************************************************************************)
(* The calls of testAvlTree.py: insert, delete and search on the tree      *)
(* alone.  `last` keeps the call that ended: its name, key, payload        *)
(* argument, result and the branch the code took.                          *)
(***************************************************************************)
Call(op, k, arg, ret, case) ==
    [op |-> op, key |-> k, arg |-> arg, ret |-> ret, case |-> case]

NoCall == Call("none", Nil, None, None, "none")

Init ==
    /\ root = Nil
    /\ nodes = <<>>
    /\ active = <<>>
    /\ cache = <<>>
    /\ last = NoCall
    /\ ledger = <<>>
    /\ engine = None
    /\ script = None

\* the branch insert takes
InsertCase(t, k) ==
    IF search(t.root, t.N, k) # Nil THEN "duplicate" ELSE "added"

\* the branch delete / _delete takes
DeleteCase(t, k) ==
    LET n == search(t.root, t.N, k) IN
    IF n = Nil THEN "absent"
    ELSE IF t.N[n].left = Nil /\ t.N[n].right = Nil THEN "leaf"
    ELSE IF t.N[n].left # Nil /\ t.N[n].right # Nil
         THEN IF t.N[_findPredecessor(t.N, n)].parent # n
              THEN "two children, predecessor spliced out"
              ELSE "two children, predecessor is the left child"
         ELSE "one child"

\* history: the finite map the calls describe
LedgerPut(k, obstacle) ==
    IF k \in DOMAIN ledger THEN ledger
    ELSE [j \in DOMAIN ledger \cup {k} |-> IF j = k THEN obstacle ELSE ledger[j]]

LedgerDrop(k) == [j \in DOMAIN ledger \ {k} |-> ledger[j]]

\* the value an insert call evaluates to: the method has no return statement
insertResult(t, k, obstacle) == None

\* the value a delete call evaluates to: the method has no return statement
deleteResult(t, k) == None

\* the call raised: the exception reaches the caller, and the tree is left
\* as the call had made it by then
Raised(op, k, arg, t) ==
    /\ root' = t.root
    /\ nodes' = t.N
    /\ last' = Call(op, k, arg, "AttributeError", "raised")
    /\ ledger' = IF op = "insert" THEN LedgerPut(k, arg) ELSE LedgerDrop(k)
    /\ UNCHANGED <<active, cache, engine, script>>

TreeInsert(k, obstacle) ==
    IF insertRaises(Tree(root, nodes), k, obstacle)
    THEN Raised("insert", k, obstacle, insertRaised(Tree(root, nodes), k, obstacle))
    ELSE /\ root' = insert(Tree(root, nodes), k, obstacle).root
         /\ nodes' = insert(Tree(root, nodes), k, obstacle).N
         /\ last' = Call("insert", k, obstacle,
                         insertResult(Tree(root, nodes), k, obstacle),
                         InsertCase(Tree(root, nodes), k))
         /\ ledger' = LedgerPut(k, obstacle)
         /\ UNCHANGED <<active, cache, engine, script>>

TreeDelete(k) ==
    IF deleteRaises(Tree(root, nodes), k)
    THEN Raised("delete", k, None, deleteRaised(Tree(root, nodes), k))
    ELSE /\ root' = delete(Tree(root, nodes), k).root
         /\ nodes' = delete(Tree(root, nodes), k).N
         /\ last' = Call("delete", k, None, deleteResult(Tree(root, nodes), k),
                         DeleteCase(Tree(root, nodes), k))
         /\ ledger' = LedgerDrop(k)
         /\ UNCHANGED <<active, cache, engine, script>>

TreeSearch(k) ==
    /\ last' = Call("search", k, None, search(root, nodes, k), "none")
    /\ UNCHANGED <<root, nodes, active, cache, ledger, engine, script>>

\* the tree on its own, one payload: balance, heights, order
NextTree ==
    \/ \E k \in TreeKeys : TreeInsert(k, "p")
    \/ \E k \in TreeKeys : TreeDelete(k)
    \/ \E k \in TreeKeys : TreeSearch(k)

SpecTree == Init /\ [][NextTree]_vars

\* the tree on its own, payloads that differ: the tree as a finite map
NextMap ==
    \/ \E k \in MapKeys, o \in Payloads : TreeInsert(k, o)
    \/ \E k \in MapKeys : TreeDelete(k)
    \/ \E k \in MapKeys : TreeSearch(k)

SpecMap == Init /\ [][NextMap]_vars

(***************************************************************************)
(* tests/testAvlTree.py: nine inserts, then three deletes, on one tree.    *)
(* The test is followed call by call; a call may also be left out, so that *)
(* every sub-sequence of the test's calls is run.  script.pos is the       *)
(* number of calls gone by, script.ran the positions of the calls made.    *)
(* `last.case` keeps the lines "<case> Rotation at node <key>" the call    *)
(* printed.                                                                *)
(***************************************************************************)
nodes_to_insert ==
    << <<30, 1>>, <<20, 2>>, <<10, 3>>, <<40, 4>>, <<50, 5>>, <<25, 6>>,
       <<45, 7>>, <<8, 20>>, <<9, 10>> >>

nodes_to_delete == << <<8, 20>>, <<45, 7>>, <<20, 2>> >>

\* the test's calls in order
TestCalls ==
    [i \in 1..(Len(nodes_to_insert) + Len(nodes_to_delete)) |->
        IF i <= Len(nodes_to_insert)
        THEN [op |-> "insert", key |-> nodes_to_insert[i]]
        ELSE [op |-> "delete", key |-> nodes_to_delete[i - Len(nodes_to_insert)]]]

\* the label imbalanceCases prints at node, "none" when it prints nothing
ImbalanceCase(N, node) ==
    IF node = Nil THEN "none"
    ELSE IF getBalance(N, node) > 1
         THEN IF getBalance(N, N[node].left) >= 0 THEN "LL" ELSE "LR"
    ELSE IF getBalance(N, node) < -1
         THEN IF getBalance(N, N[node].right) <= 0 THEN "RR" ELSE "RL"
    ELSE "none"

\* the line imbalanceCases prints at node, if any
Printed(N, node) ==
    IF ImbalanceCase(N, node) = "none" THEN <<>>
    ELSE << <<ImbalanceCase(N, node), N[node].key>> >>

\* the lines printed by _insert(node, x, y, obstacle), innermost call first
RECURSIVE _insertPrinted(_, _, _, _)
_insertPrinted(N, node, k, obstacle) ==
    IF node = Nil THEN <<>>
    ELSE IF KeyLt(k, N[node].key)
         THEN _insertPrinted(N, N[node].left, k, obstacle)
                  \o Printed(InsertLinked(_insert(N, N[node].left, k, obstacle),
                                          node, TRUE), node)
         ELSE _insertPrinted(N, N[node].right, k, obstacle)
                  \o Printed(InsertLinked(_insert(N, N[node].right, k, obstacle),
                                          node, FALSE), node)

\* the rotation lines printed by insert(x, y, obstacle)
insertPrinted(t, k, obstacle) ==
    IF search(t.root, t.N, k) # Nil \/ t.root = Nil THEN <<>>
    ELSE _insertPrinted(t.N, t.root, k, obstacle)

\* the lines imbalanceCases prints during _rebalanceUp(node), in order
RECURSIVE _rebalanceUpPrinted(_, _)
_rebalanceUpPrinted(t, node) ==
    IF node = Nil THEN <<>>
    ELSE Printed(UpdateHeight(t.N, node), node)
             \o _rebalanceUpPrinted(RebalanceAt(t, node), t.N[node].parent)

\* the rotation lines printed by delete(x, y)
deletePrinted(t, k) ==
    IF search(t.root, t.N, k) = Nil THEN <<>>
    ELSE _rebalanceUpPrinted(WalkTree(t, search(t.root, t.N, k)),
                             WalkStart(t, search(t.root, t.N, k)))

InitScript ==
    /\ root = Nil
    /\ nodes = <<>>
    /\ active = <<>>
    /\ cache = <<>>
    /\ last = NoCall
    /\ ledger = <<>>
    /\ engine = None
    /\ script = [pos |-> 0, ran |-> {}]

Advance(made) ==
    script' = [pos |-> script.pos + 1,
               ran |-> IF made THEN script.ran \cup {script.pos + 1} ELSE script.ran]

\* tree.insert(x, y, obstacle=False)
ScriptInsert ==
    /\ script.pos < Len(TestCalls)
    /\ TestCalls[script.pos + 1].op = "insert"
    /\ root' = insert(Tree(root, nodes), TestCalls[script.pos + 1].key, FALSE).root
    /\ nodes' = insert(Tree(root, nodes), TestCalls[script.pos + 1].key, FALSE).N
    /\ last' = Call("insert", TestCalls[script.pos + 1].key, FALSE, None,
                    insertPrinted(Tree(root, nodes), TestCalls[script.pos + 1].key, FALSE))
    /\ Advance(TRUE)
    /\ UNCHANGED <<active, cache, ledger, engine>>

\* tree.delete(x, y)
ScriptDelete ==
    /\ script.pos < Len(TestCalls)
    /\ TestCalls[script.pos + 1].op = "delete"
    /\ root' = delete(Tree(root, nodes), TestCalls[script.pos + 1].key).root
    /\ nodes' = delete(Tree(root, nodes), TestCalls[script.pos + 1].key).N
    /\ last' = Call("delete", TestCalls[script.pos + 1].key, None, None,
                    deletePrinted(Tree(root, nodes), TestCalls[script.pos + 1].key))
    /\ Advance(TRUE)
    /\ UNCHANGED <<active, cache, ledger, engine>>

\* the call is left out
ScriptSkip ==
    /\ script.pos < Len(TestCalls)
    /\ last' = Call("skip", TestCalls[script.pos + 1].key, None, None, <<>>)
    /\ Advance(FALSE)
    /\ UNCHANGED <<root, nodes, active, cache, ledger, engine>>

NextScript == ScriptInsert \/ ScriptDelete \/ ScriptSkip

SpecScript == InitScript /\ [][NextScript]_vars

(***************************************************************************)
(* Obstacle records (Python dicts) and their coordinate fields.  A field   *)
(* value is a Python int, a Python float (kept in halves: n stands for     *)
(* n/2; a NaN object is the float NaNVal(i)), a string that is no number,  *)
(* or is absent from the dict.                                             *)
(***************************************************************************)
IntVal(n) == [t |-> "int", n |-> n]
FloatVal(halves) == [t |-> "float", n |-> halves]
NaNVal(i) == FloatVal(NaNObject(i))
StrVal == [t |-> "str", n |-> 0]
Absent == [t |-> "absent", n |-> 0]

\* float(v): the value in halves, or an exception; float() of a float object
\* is that object, a NaN included
ToFloat(v) ==
    [ok |-> v.t \in {"int", "float"},
     val |-> IF v.t = "int" THEN 2 * v.n ELSE v.n]

\* int(v): truncation towards zero, or an exception; int() of a NaN raises
\* ValueError
ToInt(v) ==
    [ok |-> v.t = "int" \/ (v.t = "float" /\ ~IsNaN(v.n)),
     val |-> IF v.t = "int" THEN v.n
             ELSE IF v.n >= 0 THEN v.n \div 2 ELSE -((-v.n) \div 2)]

\* the default of o.get("x", -999999) and o.get("y", -999999)
MissingCoord == -999999

\* o.get(field, -999999)
GetOr(v) == IF v.t = "absent" THEN IntVal(MissingCoord) ELSE v

Obstacle(x, y, sprite) ==
    [x |-> x, y |-> y, type |-> "cone", damage |-> 10, sprite |-> sprite]

\* x = float(obs["x"]); y = int(obs["y"]) went through without an exception
CoordsOk(obs) == ToFloat(obs.x).ok /\ ToInt(obs.y).ok

\* the tree key (x, y) of spawn_obstacle and remove_by_coords
CoordKey(x, y) == <<ToFloat(x).val, ToInt(y).val>>

(***************************************************************************)
(* gui.spriteUtils.loadSprite(path, fallbackSize=None) on the shared       *)
(* SPRITE_CACHE: the cache after the call and the surface returned (None   *)
(* when the file does not load).  A surface is known by the file it was    *)
(* read from and by when it was loaded.                                    *)
(***************************************************************************)
\* os.path.normpath(path) if path else path, on the paths in use
_normalizePath(path) == IF path = "./a.png" THEN "a.png" ELSE path

\* Python truth of a sprite path: None and the empty string are false
Truthy(path) == path \notin {None, ""}

\* the surface object pygame.image.load(path) creates: known by the file
\* read and, as every load makes a new object, by the size of the shared
\* cache at the time of the load
NewSurface(c, path) == <<_normalizePath(path), Cardinality(DOMAIN c)>>

CachePut(c, key, surf) ==
    [p \in DOMAIN c \cup {key} |-> IF p = key THEN surf ELSE c[p]]

\* a variant of loadSprite that reads the file again on a cache hit
loadSpriteAgain(c, path, loads) ==
    IF ~Truthy(path) THEN [cache |-> c, surf |-> None]
    ELSE IF loads
         THEN [cache |-> CachePut(c, _normalizePath(path), NewSurface(c, path)),
               surf |-> NewSurface(c, path)]
         ELSE [cache |-> c, surf |-> None]

loadSprite(c, path, loads) ==
    IF _normalizePath(path) \in DOMAIN c
    THEN [cache |-> c, surf |-> c[_normalizePath(path)]]
    ELSE IF ~Truthy(path) THEN [cache |-> c, surf |-> None]
    ELSE IF loads
         THEN [cache |-> CachePut(c, _normalizePath(path), NewSurface(c, path)),
               surf |-> NewSurface(c, path)]
         ELSE [cache |-> c, surf |-> None]

\* FALLBACK_BTN_SIZE of gui/buttons.py, the fallbackSize its preload passes
FALLBACK_BTN_SIZE == <<70, 70>>

\* the placeholder pygame.Surface(fallbackSize) loadSprite makes when there
\* is nothing to load: a new object too, which keeps its size
Placeholder(c, fallbackSize) == <<"placeholder", Cardinality(DOMAIN c), fallbackSize>>

\* loadSprite(path, fallbackSize=fallbackSize); fallbackSize is None or a size
loadSpriteOr(c, path, loads, fallbackSize) ==
    IF _normalizePath(path) \in DOMAIN c
    THEN [cache |-> c, surf |-> c[_normalizePath(path)]]
    ELSE IF Truthy(path) /\ loads
         THEN [cache |-> CachePut(c, _normalizePath(path), NewSurface(c, path)),
               surf |-> NewSurface(c, path)]
    ELSE IF fallbackSize # None
         THEN [cache |-> CachePut(c, _normalizePath(path), Placeholder(c, fallbackSize)),
               surf |-> Placeholder(c, fallbackSize)]
    ELSE [cache |-> c, surf |-> None]

\* clearSpriteCache()
clearSpriteCache(c) == <<>>

\* surf.get_width(), surf.get_height(): the files read hold 32 x 32 images
SurfaceSize(surf) == IF Len(surf) = 3 THEN surf[3] ELSE <<32, 32>>

\* getSpriteSize(path): the cache after the call and the size returned
getSpriteSize(c, path, loads) ==
    IF _normalizePath(path) \in DOMAIN c
    THEN [cache |-> c, ret |-> SurfaceSize(c[_normalizePath(path)])]
    ELSE [cache |-> loadSprite(c, path, loads).cache,
          ret |-> IF Truthy(path) /\ loads
                  THEN SurfaceSize(NewSurface(c, path)) ELSE <<0, 0>>]

\* preloadSprites(pathMap, fallbackSize): pathMap as the sequence of its
\* items <<key, path>>, loads[path] tells whether the file can be read; the
\* cache after the call and the items of the dict returned
RECURSIVE preloadSprites(_, _, _, _)
preloadSprites(c, pathMap, loads, fallbackSize) ==
    IF pathMap = <<>> THEN [cache |-> c, loaded |-> <<>>]
    ELSE [cache |-> preloadSprites(
                        loadSpriteOr(c, Head(pathMap)[2], loads[Head(pathMap)[2]],
                                     fallbackSize).cache,
                        Tail(pathMap), loads, fallbackSize).cache,
          loaded |-> << <<Head(pathMap)[1],
                          loadSpriteOr(c, Head(pathMap)[2], loads[Head(pathMap)[2]],
                                       fallbackSize).surf>> >>
                     \o preloadSprites(
                            loadSpriteOr(c, Head(pathMap)[2], loads[Head(pathMap)[2]],
                                         fallbackSize).cache,
                            Tail(pathMap), loads, fallbackSize).loaded]

(***************************************************************************)
(* ObstacleManager: m = [root, N, active, cache].                          *)
(***************************************************************************)
Manager(rt, N, act, c) == [root |-> rt, N |-> N, active |-> act, cache |-> c]

Returned(m, ret) == [m |-> m, ret |-> ret]

\* self.tree.insert(x, y, obs); self._active_obstacles.append(obs)
InsertAndAppend(m, obs) ==
    Manager(insert(Tree(m.root, m.N), CoordKey(obs.x, obs.y), obs).root,
            insert(Tree(m.root, m.N), CoordKey(obs.x, obs.y), obs).N,
            Append(m.active, obs),
            m.cache)

\* a variant of the preload that stores whatever loadSprite returned
StoreAnySurface(m, sprite_path, loaded) ==
    Manager(m.root, m.N, m.active, CachePut(loaded.cache, sprite_path, loaded.surf))

\* if surf: self._sprite_cache[sprite_path] = surf
StoreSurface(m, sprite_path, loaded) ==
    Manager(m.root, m.N, m.active,
            IF loaded.surf # None
            THEN CachePut(loaded.cache, sprite_path, loaded.surf)
            ELSE loaded.cache)

\* the sprite preload at the end of spawn_obstacle
Preload(m, obs, loads) ==
    IF Truthy(obs.sprite) /\ obs.sprite \notin DOMAIN m.cache
    THEN StoreSurface(m, obs.sprite, loadSprite(m.cache, obs.sprite, loads))
    ELSE m

\* the branch spawn_obstacle takes
SpawnCase(m, obs) ==
    IF ~CoordsOk(obs) THEN "invalid"
    ELSE IF search(m.root, m.N, CoordKey(obs.x, obs.y)) # Nil THEN "duplicate"
    ELSE "inserted"

\* spawn_obstacle(obs); loads: whether the sprite file can be read
spawn_obstacle(m, obs, loads) ==
    IF ~CoordsOk(obs) THEN Returned(m, FALSE)
    ELSE IF search(m.root, m.N, CoordKey(obs.x, obs.y)) # Nil
         THEN Returned(m, FALSE)
         ELSE Returned(Preload(InsertAndAppend(m, obs), obs, loads), TRUE)

\* the test of the list comprehension in remove_by_coords raises: float() of
\* either x does, or the x are equal, so that `and` goes on to the y, and
\* int() of either y does
AtCoordsRaises(o, x, y) ==
    \/ ~ToFloat(GetOr(o.x)).ok
    \/ ~ToFloat(x).ok
    \/ /\ FloatEq(ToFloat(GetOr(o.x)).val, ToFloat(x).val)
       /\ (~ToInt(GetOr(o.y)).ok \/ ~ToInt(y).ok)

\* the test of the list comprehension in remove_by_coords: its value, or the
\* exception it raises
AtCoords(o, x, y) ==
    IF AtCoordsRaises(o, x, y) THEN "ValueError"
    ELSE /\ FloatEq(ToFloat(GetOr(o.x)).val, ToFloat(x).val)
         /\ ToInt(GetOr(o.y)).val = ToInt(y).val

\* a variant of the removal that leaves the tree alone
TreeKept(m, x, y) == [m |-> m, removed |-> TRUE]

\* self.tree.delete(float(x), int(y)) inside try: removed = True, or False
\* in the except branch, which float(x) and int(y) lead to when they raise
DeleteInTry(m, x, y) ==
    IF ~ToFloat(x).ok \/ ~ToInt(y).ok THEN [m |-> m, removed |-> FALSE]
    ELSE [m |-> Manager(delete(Tree(m.root, m.N), CoordKey(x, y)).root,
                        delete(Tree(m.root, m.N), CoordKey(x, y)).N,
                        m.active, m.cache),
          removed |-> TRUE]

\* the list comprehension raises at one of the entries: the list is not
\* assigned and the exception leaves remove_by_coords
remove_by_coordsRaises(m, x, y) ==
    \E i \in 1..Len(m.active) : AtCoordsRaises(m.active[i], x, y)

\* the filter of the active list and the result, or the exception
FilterActive(d, x, y) ==
    IF remove_by_coordsRaises(d.m, x, y) THEN Returned(d.m, "ValueError")
    ELSE Returned(Manager(d.m.root, d.m.N,
                          SelectSeq(d.m.active, LAMBDA o : ~AtCoords(o, x, y)),
                          d.m.cache),
                  d.removed \/ (Len(d.m.active) #
                                Len(SelectSeq(d.m.active,
                                              LAMBDA o : ~AtCoords(o, x, y)))))

\* remove_by_coords(x, y): the manager after the call and the value returned,
\* or the exception raised
remove_by_coords(m, x, y) == FilterActive(DeleteInTry(m, x, y), x, y)

\* a variant of get_visible whose window leaves its right end out
get_visibleRightOpen(m, camera_x, screen_width) ==
    SelectSeq(m.active,
              LAMBDA o : /\ FloatLe(ToFloat(camera_x).val, ToFloat(GetOr(o.x)).val)
                         /\ FloatLt(ToFloat(GetOr(o.x)).val,
                                    ToFloat(camera_x).val + 2 * screen_width))

\* get_visible(camera_x, screen_width): min_x = camera_x,
\* max_x = camera_x + screen_width, all in halves
get_visible(m, camera_x, screen_width) ==
    SelectSeq(m.active,
              LAMBDA o : /\ FloatLe(ToFloat(camera_x).val, ToFloat(GetOr(o.x)).val)
                         /\ FloatLe(ToFloat(GetOr(o.x)).val,
                                    ToFloat(camera_x).val + 2 * screen_width))

\* load_from_list(obstacles): spawn each, in order; loads: sprite path -> readable
RECURSIVE load_from_list(_, _, _)
load_from_list(m, obstacles, loads) ==
    IF obstacles = <<>> THEN m
    ELSE load_from_list(
             spawn_obstacle(m, Head(obstacles),
                            IF ~Truthy(Head(obstacles).sprite) THEN FALSE
                            ELSE loads[Head(obstacles).sprite]).m,
             Tail(obstacles), loads)

(***************************************************************************)
(* The obstacles offered to the manager.                                   *)
(***************************************************************************)
\* x ranges over 1..MaxX
MaxX == 3
\* a batch of load_from_list holds up to MaxBatch records
MaxBatch == 2

SpriteRefs == {None, "a.png"}
\* y = 1 as an int and y = 1.5 as a float: both give the key y = 1
YValues == {IntVal(1), FloatVal(3)}

WellFormed ==
    {Obstacle(IntVal(x), IntVal(1), sp) : x \in 1..MaxX, sp \in SpriteRefs}
        \cup {Obstacle(IntVal(x), FloatVal(3), None) : x \in 1..MaxX}

Malformed == {Obstacle(StrVal, IntVal(1), None), Obstacle(IntVal(1), Absent, None)}

ObstacleInputs == WellFormed \cup Malformed

Batches == UNION {[1..n -> ObstacleInputs] : n \in 0..MaxBatch}

Readable == [SpriteRefs \ {None} -> BOOLEAN]

Here == Manager(root, nodes, active, cache)

Becomes(m) ==
    /\ root' = m.root
    /\ nodes' = m.N
    /\ active' = m.active
    /\ cache' = m.cache

Spawn(obs, loads) ==
    /\ Becomes(spawn_obstacle(Here, obs, loads).m)
    /\ last' = Call("spawn",
                    IF CoordsOk(obs) THEN CoordKey(obs.x, obs.y) ELSE Nil,
                    obs, spawn_obstacle(Here, obs, loads).ret,
                    SpawnCase(Here, obs))
    /\ UNCHANGED <<ledger, engine, script>>

\* how remove_by_coords ends: with an exception, with coordinates that do
\* not convert, or with the coordinate found in the tree or not
RemoveCase(m, x, y) ==
    IF remove_by_coordsRaises(m, x, y) THEN "raised"
    ELSE IF ~ToFloat(x).ok \/ ~ToInt(y).ok THEN "invalid"
    ELSE IF search(m.root, m.N, CoordKey(x, y)) # Nil THEN "present"
    ELSE "absent"

\* the record of a remove_by_coords(x, y) call made in this state
RemoveCall(x, y) ==
    Call("remove",
         IF ToFloat(x).ok /\ ToInt(y).ok THEN CoordKey(x, y) ELSE Nil,
         None, remove_by_coords(Here, x, y).ret, RemoveCase(Here, x, y))

Remove(x, y) ==
    /\ Becomes(remove_by_coords(Here, x, y).m)
    /\ last' = RemoveCall(x, y)
    /\ UNCHANGED <<ledger, engine, script>>

Load(obstacles, loads) ==
    /\ Becomes(load_from_list(Here, obstacles, loads))
    /\ last' = Call("load", Nil, Len(obstacles), None, "none")
    /\ UNCHANGED <<ledger, engine, script>>

\* gui.spriteUtils.clearSpriteCache() on the cache the manager shares
ClearSpriteCache ==
    /\ cache' = clearSpriteCache(cache)
    /\ last' = Call("clear_cache", Nil, None, None, "none")
    /\ UNCHANGED <<root, nodes, active, ledger, engine, script>>

\* gui.spriteUtils.getSpriteSize(path)
GetSpriteSize(path, loads) ==
    /\ cache' = getSpriteSize(cache, path, loads).cache
    /\ last' = Call("sprite_size", Nil, path, getSpriteSize(cache, path, loads).ret,
                    "none")
    /\ UNCHANGED <<root, nodes, active, ledger, engine, script>>

\* gui.spriteUtils.preloadSprites(pathMap, fallbackSize)
PreloadSprites(pathMap, loads, fallbackSize) ==
    /\ cache' = preloadSprites(cache, pathMap, loads, fallbackSize).cache
    /\ last' = Call("preload", Nil, <<pathMap, fallbackSize>>,
                    preloadSprites(cache, pathMap, loads, fallbackSize).loaded,
                    "none")
    /\ UNCHANGED <<root, nodes, active, ledger, engine, script>>

\* the sprite files asked for, under either spelling, readable or not
SpriteFiles == {[p \in {"a.png", "./a.png"} |-> b] : b \in BOOLEAN}

\* the path maps preloaded: one button, and two buttons with one file
PathMaps ==
    { << <<"start", "a.png">> >>,
      << <<"start", "a.png">>, <<"pause", "./a.png">> >> }

\* the calls of gui.spriteUtils made next to the manager's
CacheCalls ==
    \/ ClearSpriteCache
    \/ \E path \in {"a.png", "./a.png"}, loads \in BOOLEAN : GetSpriteSize(path, loads)
    \/ \E pathMap \in PathMaps, loads \in SpriteFiles,
           fallbackSize \in {None, FALLBACK_BTN_SIZE} :
           PreloadSprites(pathMap, loads, fallbackSize)

NextManager ==
    \/ \E obs \in ObstacleInputs, loads \in BOOLEAN : Spawn(obs, loads)
    \/ \E x \in 1..MaxX, y \in YValues : Remove(IntVal(x), y)
    \/ \E b \in Batches, loads \in Readable : Load(b, loads)
    \/ CacheCalls

SpecManager == Init /\ [][NextManager]_vars

(***************************************************************************)
(* The manager with its window query: spawn, remove and get_visible.       *)
(***************************************************************************)
\* screen_width ranges over 0..MaxWidth
MaxWidth == 1

\* camera_x: the ints 0..MaxX and the float 1.5
CameraXs == {IntVal(c) : c \in 0..MaxX} \cup {FloatVal(3)}

GetVisible(camera_x, screen_width) ==
    /\ last' = Call("visible", Nil, <<camera_x, screen_width>>,
                    get_visible(Here, camera_x, screen_width), "none")
    /\ UNCHANGED <<root, nodes, active, cache, ledger, engine, script>>

NextView ==
    \/ \E obs \in ObstacleInputs, loads \in BOOLEAN : Spawn(obs, loads)
    \/ \E x \in 1..MaxX, y \in YValues : Remove(IntVal(x), y)
    \/ \E c \in CameraXs, w \in 0..MaxWidth : GetVisible(c, w)
    \/ CacheCalls

SpecView == Init /\ [][NextView]_vars

(***************************************************************************)
(* The manager given records whose x is a NaN.  spawn_obstacle takes such  *)
(* a record in, and remove_by_coords called with the record's own x then   *)
(* takes the node out of the tree and leaves the entry in the list, so     *)
(* that the same record can be spawned again: the list grows with every    *)
(* round.  The client below makes at most MaxCalls calls.                  *)
(***************************************************************************)
MaxCalls == 5

\* a record whose x is a NaN object
NaNAt1 == Obstacle(NaNVal(1), IntVal(1), None)

\* the records spawned: x = 1..MaxX and the NaN, all at y = 1, no sprite
NaNInputs == {Obstacle(IntVal(x), IntVal(1), None) : x \in 1..MaxX} \cup {NaNAt1}

\* the x of remove_by_coords: the whole numbers, the NaN object of NaNAt1,
\* another NaN object, and a text, which float() does not convert
RemoveXs == {IntVal(x) : x \in 1..MaxX} \cup {NaNVal(1), NaNVal(2), StrVal}

\* the y of remove_by_coords: 1, and a NaN, which int() does not convert
RemoveYs == {IntVal(1), NaNVal(3)}

\* the batches loaded: two records, the NaN among them or not
NaNBatches == {<<NaNAt1, Obstacle(IntVal(2), IntVal(1), None)>>,
               <<Obstacle(IntVal(1), IntVal(1), None),
                 Obstacle(IntVal(3), IntVal(1), None)>>}

InitCounted ==
    /\ root = Nil
    /\ nodes = <<>>
    /\ active = <<>>
    /\ cache = <<>>
    /\ last = NoCall
    /\ ledger = <<>>
    /\ engine = None
    /\ script = [calls |-> 0]

\* one more call of the client
Counted ==
    /\ script.calls < MaxCalls
    /\ script' = [calls |-> script.calls + 1]

CountedSpawn(obs) ==
    /\ Counted
    /\ Becomes(spawn_obstacle(Here, obs, FALSE).m)
    /\ last' = Call("spawn", CoordKey(obs.x, obs.y), obs,
                    spawn_obstacle(Here, obs, FALSE).ret, SpawnCase(Here, obs))
    /\ UNCHANGED <<ledger, engine>>

CountedRemove(x, y) ==
    /\ Counted
    /\ Becomes(remove_by_coords(Here, x, y).m)
    /\ last' = RemoveCall(x, y)
    /\ UNCHANGED <<ledger, engine>>

CountedLoad(obstacles) ==
    /\ Counted
    /\ Becomes(load_from_list(Here, obstacles, [p \in {} |-> FALSE]))
    /\ last' = Call("load", Nil, Len(obstacles), None, "none")
    /\ UNCHANGED <<ledger, engine>>

CountedVisible(camera_x, screen_width) ==
    /\ Counted
    /\ last' = Call("visible", Nil, <<camera_x, screen_width>>,
                    get_visible(Here, camera_x, screen_width), "none")
    /\ UNCHANGED <<root, nodes, active, cache, ledger, engine>>

NextCounted ==
    \/ \E obs \in NaNInputs : CountedSpawn(obs)
    \/ \E x \in RemoveXs, y \in RemoveYs : CountedRemove(x, y)
    \/ \E b \in NaNBatches : CountedLoad(b)
    \/ \E c \in {IntVal(1), IntVal(2)} : CountedVisible(c, 1)

SpecCounted == InitCounted /\ [][NextCounted]_vars

(***************************************************************************)
(* GameEngine (src/src/game/gameEngine.py).  The engine's own fields are   *)
(* the record e; its ObstacleManager is the record m of the sections       *)
(* above.  Coordinates that Python holds as floats are kept in halves.     *)
(***************************************************************************)
INIT == "init"
RUNNING == "running"
PAUSED == "paused"
GOD_MODE == "god_mode"
GAME_OVER == "game_over"

\* int(v) of a float v given in halves
TruncHalves(h) == IF h >= 0 THEN h \div 2 ELSE -((-h) \div 2)

\* an obstacle dict with all its fields
ObstacleDict(x, y, type, damage, sprite) ==
    [x |-> x, y |-> y, type |-> type, damage |-> damage, sprite |-> sprite]

\* Car(x, y, sprite_path, config): the fields the engine reads and writes
NewCar(x, y, config) ==
    [x |-> x, y |-> y, speed |-> config.speed,
     jump_distance |-> config.jumpDistance,
     energy |-> 100, energy_max |-> 100,
     is_jumping |-> FALSE, jump_remaining |-> 0, last_hit_time |-> 0]

\* road_cfg.get(key, default) with road_cfg = config.get("road", {})
RoadGet(config, key, default) ==
    IF key \in DOMAIN config.road THEN config.road[key] ELSE default

\* _set_state(new_state); no state change is under way and no callback is set
_set_state(e, new_state) ==
    [e EXCEPT !._prev_state = e.state, !.state = new_state]

\* GameEngine.__init__ up to the creation of the manager
EngineFields(config, start_x, start_y, screen_width, camera_offset) ==
    [config |-> config,
     obstacles_data |-> config.obstacles,
     car |-> NewCar(start_x, start_y, config),
     screen_width |-> screen_width,
     camera_offset |-> camera_offset,
     total_distance |-> config.totalDistance,
     state |-> INIT,
     _prev_state |-> None,
     road_x_min |-> RoadGet(config, "x_min", 0),
     road_x_max |-> RoadGet(config, "x_max", config.totalDistance),
     road_y_min |-> RoadGet(config, "y_min", 31),
     road_y_max |-> RoadGet(config, "y_max", 500),
     lane_height |-> (RoadGet(config, "y_max", 500) - RoadGet(config, "y_min", 31)) \div 8]

\* an engine and its manager
Game(e, m) == [e |-> e, m |-> m]

\* GameEngine(config_path, ...): c is the shared sprite cache at that time,
\* loads tells which sprite files can be read
GameEngineInit(config, start_x, start_y, screen_width, camera_offset, c, loads) ==
    Game(EngineFields(config, start_x, start_y, screen_width, camera_offset),
         load_from_list(Manager(Nil, <<>>, <<>>, c), config.obstacles, loads))

\* the engine's fields after reset(), before _set_state
ResetFields(e) ==
    [e EXCEPT !.config = e.config,
              !.obstacles_data = e.config.obstacles,
              !.car = NewCar(0, 31, e.config),
              !.road_x_min = RoadGet(e.config, "x_min", 0),
              !.road_x_max = RoadGet(e.config, "x_max", e.total_distance),
              !.road_y_min = RoadGet(e.config, "y_min", 0),
              !.road_y_max = RoadGet(e.config, "y_max", 500)]

\* a variant of reset that loads the configuration's obstacles into the
\* manager it has
resetInPlace(g, loads) ==
    Game(_set_state(ResetFields(g.e), INIT),
         load_from_list(g.m, g.e.config.obstacles, loads))

\* reset(): the configuration file is read again and holds what it held
reset(g, loads) ==
    Game(_set_state(ResetFields(g.e), INIT),
         load_from_list(Manager(Nil, <<>>, <<>>, g.m.cache),
                        g.e.config.obstacles, loads))

(***************************************************************************)
(* Rectangles (pygame.Rect) and hitboxes.                                  *)
(***************************************************************************)
Rect(left, top, w, h) == [left |-> left, top |-> top, w |-> w, h |-> h]

\* a.colliderect(b): the rectangles share area; touching edges do not count
colliderect(a, b) ==
    /\ a.w # 0 /\ a.h # 0 /\ b.w # 0 /\ b.h # 0
    /\ a.left < b.left + b.w
    /\ b.left < a.left + a.w
    /\ a.top < b.top + b.h
    /\ b.top < a.top + a.h

\* default_size_map.get(type, fallback)
DefaultSize(type, fallback) ==
    IF type = "cone" THEN <<24, 24>>
    ELSE IF type = "hole" THEN <<40, 16>>
    ELSE fallback

\* w, h of _get_obstacle_hitbox
HitboxSize(m, obs) ==
    IF Truthy(obs.sprite) /\ obs.sprite \in DOMAIN m.cache
    THEN SurfaceSize(m.cache[obs.sprite])
    ELSE DefaultSize(obs.type, <<48, 48>>)

\* top_world = max(baseline - h, float(road_y_min)), in halves
HitboxTop(e, obs, h) ==
    Max(ToFloat(obs.y).val - 2 * h, 2 * e.road_y_min)

\* int(obs["x"]) and float(obs["y"]) of _get_obstacle_hitbox do not raise
HasHitbox(obs) == ToInt(obs.x).ok /\ ToFloat(obs.y).ok

\* _get_obstacle_hitbox(obs): a rectangle, or None when x or y do not parse
_get_obstacle_hitbox(e, m, obs) ==
    IF ~HasHitbox(obs) THEN None
    ELSE Rect(ToInt(obs.x).val,
              TruncHalves(HitboxTop(e, obs, HitboxSize(m, obs)[2])),
              HitboxSize(m, obs)[1],
              HitboxSize(m, obs)[2])

\* cand_rect of can_place_obstacle; size is (cw, ch)
CandidateRect(x, y, margin, size) ==
    Rect(TruncHalves(ToFloat(x).val - ToFloat(margin).val),
         TruncHalves(ToFloat(y).val - 2 * size[2] - ToFloat(margin).val),
         size[1] + TruncHalves(2 * ToFloat(margin).val),
         size[2] + TruncHalves(2 * ToFloat(margin).val))

\* the bounds test of can_place_obstacle
WithinRoad(e, x, y) ==
    /\ FloatLe(2 * e.road_x_min, ToFloat(x).val)
    /\ FloatLe(ToFloat(x).val, 2 * e.road_x_max)
    /\ FloatLe(2 * e.road_y_min, ToFloat(y).val)
    /\ FloatLe(ToFloat(y).val, 2 * e.road_y_max)

\* the loop of can_place_obstacle finds an active obstacle in the way
Blocked(g, cand_rect) ==
    \E i \in 1..Len(g.m.active) :
        /\ HasHitbox(g.m.active[i])
        /\ colliderect(cand_rect, _get_obstacle_hitbox(g.e, g.m, g.m.active[i]))

\* a variant of can_place_obstacle that tries the place by spawning the
\* candidate, and leaves it in where it fits
can_place_obstacleBySpawning(g, x, y, margin, obstacle_type) ==
    IF ~WithinRoad(g.e, x, y) THEN [g |-> g, ret |-> FALSE]
    ELSE IF Blocked(g, CandidateRect(x, y, margin,
                                     DefaultSize(obstacle_type, <<24, 24>>)))
         THEN [g |-> g, ret |-> FALSE]
         ELSE [g |-> Game(g.e, spawn_obstacle(g.m, ObstacleDict(x, y, obstacle_type, 0, None),
                                              FALSE).m),
               ret |-> TRUE]

\* can_place_obstacle(x, y, margin, obstacle_type): the engine and manager
\* after the call and the value returned
can_place_obstacle(g, x, y, margin, obstacle_type) ==
    IF ~WithinRoad(g.e, x, y) THEN [g |-> g, ret |-> FALSE]
    ELSE IF Blocked(g, CandidateRect(x, y, margin,
                                     DefaultSize(obstacle_type, <<24, 24>>)))
         THEN [g |-> g, ret |-> FALSE]
         ELSE [g |-> g, ret |-> TRUE]

(***************************************************************************)
(* Car: position in whole units (speed, jump distance and elapsed seconds  *)
(* are whole numbers in the runs modelled), energy, jump and the           *)
(* invulnerability window.  last_hit_time is 1 while less than             *)
(* INVULNERABILITY_SECONDS have passed since the last damaging hit, else 0.*)
(* collide reads time.time() at every call: the window can end between two *)
(* calls of one update as well as between two calls of the engine.         *)
(***************************************************************************)
Min(a, b) == IF a < b THEN a ELSE b

\* Car.jump()
jump(car) ==
    IF ~car.is_jumping
    THEN [car EXCEPT !.is_jumping = TRUE, !.jump_remaining = car.jump_distance]
    ELSE car

\* Car.move_up(lane_height, min_y)
move_up(car, lane_height, min_y) ==
    IF Max(min_y, car.y - lane_height) % lane_height = 0
    THEN [car EXCEPT !.y = Max(min_y, car.y - lane_height)]
    ELSE car

\* Car.move_down(lane_height, max_y)
move_down(car, lane_height, max_y) ==
    IF Min(max_y, car.y + lane_height) % lane_height = 0
    THEN [car EXCEPT !.y = Min(max_y, car.y + lane_height)]
    ELSE car

\* the step of Car.update(delta_time)
CarStep(car, delta_time) ==
    IF delta_time > 0 THEN car.speed * delta_time
    ELSE IF car.is_jumping THEN Min(car.jump_remaining, car.speed)
    ELSE car.speed

\* Car.update(delta_time)
CarUpdate(car, delta_time) ==
    IF car.is_jumping
    THEN [car EXCEPT !.x = car.x + CarStep(car, delta_time),
                     !.jump_remaining = car.jump_remaining - CarStep(car, delta_time),
                     !.is_jumping = car.jump_remaining - CarStep(car, delta_time) > 0]
    ELSE [car EXCEPT !.x = car.x + CarStep(car, delta_time)]

\* Car.collide(obstacle): the car after the call and the value returned
collide(car, obstacle) ==
    IF car.is_jumping /\ car.jump_remaining > 0 THEN [car |-> car, ret |-> FALSE]
    ELSE IF car.last_hit_time = 1 THEN [car |-> car, ret |-> FALSE]
    ELSE [car |-> [car EXCEPT !.energy = Max(0, car.energy - obstacle.damage),
                              !.last_hit_time =
                                  IF Max(0, car.energy - obstacle.damage) < car.energy
                                  THEN 1 ELSE car.last_hit_time],
          ret |-> Max(0, car.energy - obstacle.damage) < car.energy]

\* Car.is_alive()
is_alive(car) == car.energy > 0

(***************************************************************************)
(* GameEngine: the state machine, update and placement.                    *)
(***************************************************************************)
\* start()
start(g, loads) ==
    IF g.e.state = GAME_OVER
    THEN Game(_set_state(reset(g, loads).e, RUNNING), reset(g, loads).m)
    ELSE IF g.e.state \in {INIT, PAUSED}
         THEN Game(_set_state(g.e, RUNNING), g.m)
         ELSE g

\* pause()
pause(g) ==
    IF g.e.state = RUNNING THEN Game(_set_state(g.e, PAUSED), g.m) ELSE g

\* resume()
resume(g) ==
    IF g.e.state = PAUSED THEN Game(_set_state(g.e, RUNNING), g.m) ELSE g

\* toggle_pause()
toggle_pause(g) ==
    IF g.e.state = RUNNING THEN pause(g)
    ELSE IF g.e.state = PAUSED THEN resume(g)
    ELSE g

\* enter_god_mode()
enter_god_mode(g) ==
    IF g.e.state # GOD_MODE THEN Game(_set_state(g.e, GOD_MODE), g.m) ELSE g

\* exit_god_mode()
exit_god_mode(g) ==
    IF g.e.state = GOD_MODE THEN Game(_set_state(g.e, PAUSED), g.m) ELSE g

\* is_game_over()
is_game_over(g) == g.e.state = GAME_OVER

\* _get_car_hitbox(): the car's sprite is the 64 x 32 surface Car makes
\* when its image file does not load
_get_car_hitbox(e, car) ==
    Rect(car.x, Max(car.y - 32, e.road_y_min), 64, 32)

\* obs_rect and car_rect.colliderect(obs_rect)
Hits(e, m, car, obs) ==
    /\ HasHitbox(obs)
    /\ colliderect(_get_car_hitbox(e, car), _get_obstacle_hitbox(e, m, obs))

\* (screen_x + w) < 0, in halves
OffScreen(e, m, car, obs) ==
    ToFloat(obs.x).val - 2 * car.x + 2 * e.camera_offset
        + 2 * HitboxSize(m, obs)[1] < 0

\* a variant of Marked that puts every obstacle the car touches on to_remove
MarkedOnTouch(e, m, car, obs) ==
    IF Hits(e, m, car, obs) THEN TRUE ELSE OffScreen(e, m, car, obs)

\* the loop body of _process_collisions_and_cleanup puts obs on to_remove
Marked(e, m, car, obs) ==
    IF Hits(e, m, car, obs)
    THEN \/ collide(car, obs).car.energy < car.energy
         \/ collide(car, obs).ret = TRUE
    ELSE OffScreen(e, m, car, obs)

\* the car after the loop body
CarAfter(e, m, car, obs) ==
    IF Hits(e, m, car, obs) THEN collide(car, obs).car ELSE car

\* the car as collide finds it when the clock it reads is, or is not, past
\* the end of the invulnerability window
Clocked(car, over) == IF over THEN [car EXCEPT !.last_hit_time = 0] ELSE car

\* the loop over the visible obstacles: the car and to_remove after it;
\* ends[i] tells whether the window is over by the time of the i-th turn
RECURSIVE ScanVisible(_, _, _, _, _, _)
ScanVisible(e, m, car, visible, to_remove, ends) ==
    IF visible = <<>> THEN [car |-> car, to_remove |-> to_remove]
    ELSE ScanVisible(e, m,
                     CarAfter(e, m, Clocked(car, Head(ends)), Head(visible)),
                     Tail(visible),
                     IF Marked(e, m, Clocked(car, Head(ends)), Head(visible))
                     THEN Append(to_remove, <<Head(visible).x, Head(visible).y>>)
                     ELSE to_remove,
                     Tail(ends))

\* for x, y in to_remove: remove_obstacle_by_coords(x, y)
RECURSIVE RemoveAll(_, _)
RemoveAll(m, to_remove) ==
    IF to_remove = <<>> THEN m
    ELSE RemoveAll(remove_by_coords(m, Head(to_remove)[1], Head(to_remove)[2]).m,
                   Tail(to_remove))

\* a variant of _process_collisions_and_cleanup that sets the damage of the
\* obstacles it leaves active to 0
_process_collisions_and_cleanupDefusing(g, ends) ==
    Game([g.e EXCEPT !.car =
              ScanVisible(g.e, g.m, g.e.car,
                          get_visible(g.m, FloatVal(2 * g.e.car.x), g.e.screen_width),
                          <<>>, ends).car],
         [RemoveAll(g.m,
                    ScanVisible(g.e, g.m, g.e.car,
                                get_visible(g.m, FloatVal(2 * g.e.car.x), g.e.screen_width),
                                <<>>, ends).to_remove)
            EXCEPT !.active = [i \in DOMAIN @ |-> [@[i] EXCEPT !.damage = 0]]])

\* _process_collisions_and_cleanup()
_process_collisions_and_cleanup(g, ends) ==
    Game([g.e EXCEPT !.car =
              ScanVisible(g.e, g.m, g.e.car,
                          get_visible(g.m, FloatVal(2 * g.e.car.x), g.e.screen_width),
                          <<>>, ends).car],
         RemoveAll(g.m,
                   ScanVisible(g.e, g.m, g.e.car,
                               get_visible(g.m, FloatVal(2 * g.e.car.x), g.e.screen_width),
                               <<>>, ends).to_remove))

\* car.update(delta_time), then car.x kept within the road
MoveCar(e, delta_time) ==
    [e EXCEPT !.car.x = Max(e.road_x_min,
                            Min(e.road_x_max, CarUpdate(e.car, delta_time).x)),
              !.car.is_jumping = CarUpdate(e.car, delta_time).is_jumping,
              !.car.jump_remaining = CarUpdate(e.car, delta_time).jump_remaining]

\* the end of update(): game over when the car is dead or at the finish
DetectGameOver(g) ==
    IF ~is_alive(g.e.car) \/ g.e.car.x >= g.e.total_distance
    THEN Game(_set_state(g.e, GAME_OVER), g.m)
    ELSE g

\* a variant of update without the test of the state
updateInAnyState(g, delta_time, ends) ==
    DetectGameOver(
        _process_collisions_and_cleanup(Game(MoveCar(g.e, delta_time), g.m), ends))

\* update(delta_time); ends: what the clock tells at each turn of the loop
\* over the visible obstacles
update(g, delta_time, ends) ==
    IF g.e.state # RUNNING THEN g
    ELSE DetectGameOver(
             _process_collisions_and_cleanup(Game(MoveCar(g.e, delta_time), g.m), ends))

\* gui.eventHandler.handleKeyEvent: lane_height as it computes it
\* (a true division, then int(): towards zero)
KeyLaneHeight(e) ==
    IF e.road_y_max >= e.road_y_min
    THEN (e.road_y_max - e.road_y_min) \div 8
    ELSE -((e.road_y_min - e.road_y_max) \div 8)

\* handleKeyEvent on K_UP
handleKeyUp(g) ==
    Game([g.e EXCEPT !.car = move_up(g.e.car, KeyLaneHeight(g.e), g.e.road_y_min)],
         g.m)

\* handleKeyEvent on K_DOWN
handleKeyDown(g) ==
    Game([g.e EXCEPT !.car = move_down(g.e.car, KeyLaneHeight(g.e), g.e.road_y_max)],
         g.m)

\* the car put at the start of the road, as the reset button does
AtRoadStart(g) ==
    Game([g.e EXCEPT !.car.x = g.e.road_x_min, !.car.y = g.e.road_y_min], g.m)

\* gui.eventHandler.handleEvent on a click of the reset button:
\* engine.reset(), car.x and car.y written, engine.start()
handleResetButton(g, loads) == start(AtRoadStart(reset(g, loads)), loads)

\* x = float(obs["x"]); y = int(obs["y"]) of place_obstacle raise: both keys
\* are in the dict and one of the values does not convert.  The two lines
\* stand outside every try, so the exception leaves place_obstacle.
place_obstacleRaises(obs) ==
    /\ obs.x.t # "absent" /\ obs.y.t # "absent"
    /\ ~CoordsOk(obs)

\* place_obstacle(obs): the engine and manager after the call and the value
\* returned, or the exception raised before anything was changed
place_obstacle(g, obs, loads) ==
    IF obs.x.t = "absent" \/ obs.y.t = "absent" THEN [g |-> g, ret |-> FALSE]
    ELSE IF place_obstacleRaises(obs) THEN [g |-> g, ret |-> "ValueError"]
    ELSE IF g.e.state # GOD_MODE THEN [g |-> g, ret |-> FALSE]
    ELSE IF ~can_place_obstacle(g, FloatVal(ToFloat(obs.x).val),
                                IntVal(ToInt(obs.y).val), FloatVal(8), obs.type).ret
         THEN [g |-> g, ret |-> FALSE]
         ELSE [g |-> Game(g.e, spawn_obstacle(g.m, obs, loads).m),
               ret |-> spawn_obstacle(g.m, obs, loads).ret]

(***************************************************************************)
(* The engine's inputs: the configuration file, the constructor's          *)
(* arguments, the obstacles spawned at run time and the placement queries. *)
(***************************************************************************)
ConeAt30 == ObstacleDict(IntVal(30), IntVal(55), "cone", 10, None)
HoleAt60 == ObstacleDict(IntVal(60), IntVal(40), "hole", 8, "a.png")
\* x = 60.5, and the sprite file of HoleAt60 under another spelling
RockAt60 == ObstacleDict(FloatVal(121), IntVal(80), "rock", 100, "./a.png")

EngineObstacles == {ConeAt30, HoleAt60, RockAt60}

\* config.json with a "road" section, and without one
ConfigRoad ==
    [totalDistance |-> 100, speed |-> 20, jumpDistance |-> 40,
     road |-> [x_min |-> 0, x_max |-> 100, y_min |-> 31, y_max |-> 90],
     obstacles |-> <<ConeAt30, HoleAt60>>]
ConfigDefault ==
    [totalDistance |-> 80, speed |-> 20, jumpDistance |-> 40,
     road |-> [key \in {} |-> 0],
     obstacles |-> <<ConeAt30>>]

Configs == {ConfigRoad, ConfigDefault}

\* GameEngine(start_x=0, start_y=31, screen_width=50, camera_offset=8)
StartX == 0
StartY == 31
ScreenWidth == 50
CameraOffset == 8

\* whether the sprite file, under either spelling, can be read
EngineReadable == {[p \in {"a.png", "./a.png"} |-> b] : b \in BOOLEAN}

\* the placement queries made: on and next to the edges of the road and of
\* the cone's hitbox, and at x = 32.5, half a pixel into the rock's
QueryXs == {IntVal(2), IntVal(3), FloatVal(65), IntVal(101)}
QueryYs == {IntVal(31), IntVal(83)}
Margins == {IntVal(0), FloatVal(8)}
QueryTypes == {"cone", "hole"}

GameHere == Game(engine, Here)

GameBecomes(g) ==
    /\ engine' = g.e
    /\ Becomes(g.m)

InitEngine ==
    \E config \in Configs, loads \in EngineReadable :
        /\ engine = GameEngineInit(config, StartX, StartY, ScreenWidth,
                                   CameraOffset, <<>>, loads).e
        /\ root = GameEngineInit(config, StartX, StartY, ScreenWidth,
                                 CameraOffset, <<>>, loads).m.root
        /\ nodes = GameEngineInit(config, StartX, StartY, ScreenWidth,
                                  CameraOffset, <<>>, loads).m.N
        /\ active = GameEngineInit(config, StartX, StartY, ScreenWidth,
                                   CameraOffset, <<>>, loads).m.active
        /\ cache = GameEngineInit(config, StartX, StartY, ScreenWidth,
                                  CameraOffset, <<>>, loads).m.cache
        /\ last = NoCall
        /\ ledger = <<>>
        /\ script = None

CanPlace(x, y, margin, obstacle_type) ==
    /\ GameBecomes(can_place_obstacle(GameHere, x, y, margin, obstacle_type).g)
    /\ last' = Call("can_place", Nil, <<x, y, margin, obstacle_type>>,
                    can_place_obstacle(GameHere, x, y, margin, obstacle_type).ret,
                    "none")
    /\ UNCHANGED <<ledger, script>>

\* what reset() finds: "restored" when an obstacle placed at run time is
\* active and an obstacle of the configuration is not
ResetCase(g) ==
    IF /\ \E i \in 1..Len(g.m.active) : g.m.active[i] \notin Range(g.e.config.obstacles)
       /\ \E j \in 1..Len(g.e.config.obstacles) :
              g.e.config.obstacles[j] \notin Range(g.m.active)
    THEN "restored" ELSE "plain"

Reset(loads) ==
    /\ GameBecomes(reset(GameHere, loads))
    /\ last' = Call("reset", Nil, None, None, ResetCase(GameHere))
    /\ UNCHANGED <<ledger, script>>

\* get_visible_obstacles(): the window starts at the car, whose x is a float
VisibleObstacles ==
    GetVisible(FloatVal(2 * engine.car.x), engine.screen_width)

NextEngine ==
    \/ \E obs \in EngineObstacles, loads \in BOOLEAN : Spawn(obs, loads)
    \/ \E obs \in EngineObstacles : Remove(obs.x, obs.y)
    \/ \E loads \in EngineReadable : Load(<<RockAt60, ConeAt30>>, loads)
    \/ VisibleObstacles
    \/ \E loads \in EngineReadable : Reset(loads)
    \/ \E x \in QueryXs, y \in QueryYs, margin \in Margins, t \in QueryTypes :
           CanPlace(x, y, margin, t)
    \/ CacheCalls

SpecEngine == InitEngine /\ [][NextEngine]_vars

(***************************************************************************)
(* The game: the calls the window and the event handler make on the        *)
(* engine.  `last` keeps the call that ended, its argument, its result and *)
(* the state the engine was in when it was made.                           *)
(***************************************************************************)
\* an obstacle that does no damage, and a click that gives no y
PuddleAt90 == ObstacleDict(IntVal(90), IntVal(50), "puddle", 0, None)
NoYAt90 == ObstacleDict(IntVal(90), Absent, "cone", 10, None)

\* a record whose x is text that is no number
TextXAt50 == ObstacleDict(StrVal, IntVal(50), "cone", 10, None)

PlaceInputs == {RockAt60, PuddleAt90, NoYAt90, TextXAt50}

\* seconds passed to update(); 0 makes the car step by its speed
DeltaTimes == {0, 1}

GameCall(op, arg, ret) == Call(op, Nil, arg, ret, engine.state)

Start(loads) ==
    /\ GameBecomes(start(GameHere, loads))
    /\ last' = GameCall("start", None, None)
    /\ UNCHANGED <<ledger, script>>

Pause ==
    /\ GameBecomes(pause(GameHere))
    /\ last' = GameCall("pause", None, None)
    /\ UNCHANGED <<ledger, script>>

Resume ==
    /\ GameBecomes(resume(GameHere))
    /\ last' = GameCall("resume", None, None)
    /\ UNCHANGED <<ledger, script>>

TogglePause ==
    /\ GameBecomes(toggle_pause(GameHere))
    /\ last' = GameCall("toggle_pause", None, None)
    /\ UNCHANGED <<ledger, script>>

EnterGodMode ==
    /\ GameBecomes(enter_god_mode(GameHere))
    /\ last' = GameCall("enter_god_mode", None, None)
    /\ UNCHANGED <<ledger, script>>

ExitGodMode ==
    /\ GameBecomes(exit_god_mode(GameHere))
    /\ last' = GameCall("exit_god_mode", None, None)
    /\ UNCHANGED <<ledger, script>>

GameReset(loads) ==
    /\ GameBecomes(reset(GameHere, loads))
    /\ last' = GameCall("reset", None, None)
    /\ UNCHANGED <<ledger, script>>

\* the obstacles update(delta_time) goes over: those visible once the car
\* has moved
Scanned(delta_time) ==
    get_visible(Here, FloatVal(2 * MoveCar(engine, delta_time).car.x),
                engine.screen_width)

\* the clock readings update(delta_time) can meet, one for every obstacle
\* gone over
ClockReadings(delta_time) == [1..Len(Scanned(delta_time)) -> BOOLEAN]

\* update(delta_time); last.arg keeps delta_time and the clock readings
Update(delta_time, ends) ==
    /\ GameBecomes(update(GameHere, delta_time, ends))
    /\ last' = GameCall("update", <<delta_time, ends>>, None)
    /\ UNCHANGED <<ledger, script>>

Jump ==
    /\ engine' = [engine EXCEPT !.car = jump(engine.car)]
    /\ last' = GameCall("jump", None, None)
    /\ UNCHANGED <<root, nodes, active, cache, ledger, script>>

\* place_obstacle(obs); a call that raised is kept with the case "raised"
Place(obs, loads) ==
    /\ GameBecomes(place_obstacle(GameHere, obs, loads).g)
    /\ last' = IF place_obstacleRaises(obs)
               THEN Call("place", Nil, obs, place_obstacle(GameHere, obs, loads).ret,
                         "raised")
               ELSE GameCall("place", obs, place_obstacle(GameHere, obs, loads).ret)
    /\ UNCHANGED <<ledger, script>>

KeyUp ==
    /\ GameBecomes(handleKeyUp(GameHere))
    /\ last' = GameCall("key_up", None, None)
    /\ UNCHANGED <<ledger, script>>

KeyDown ==
    /\ GameBecomes(handleKeyDown(GameHere))
    /\ last' = GameCall("key_down", None, None)
    /\ UNCHANGED <<ledger, script>>

ResetButton(loads) ==
    /\ GameBecomes(handleResetButton(GameHere, loads))
    /\ last' = GameCall("reset_button", None, None)
    /\ UNCHANGED <<ledger, script>>

\* INVULNERABILITY_SECONDS pass without a hit
Tick ==
    /\ engine.car.last_hit_time = 1
    /\ engine' = [engine EXCEPT !.car.last_hit_time = 0]
    /\ last' = GameCall("tick", None, None)
    /\ UNCHANGED <<root, nodes, active, cache, ledger, script>>

NextGame ==
    \/ \E loads \in EngineReadable : Start(loads)
    \/ Pause
    \/ Resume
    \/ TogglePause
    \/ EnterGodMode
    \/ ExitGodMode
    \/ \E loads \in EngineReadable : GameReset(loads)
    \/ \E delta_time \in DeltaTimes :
           \E ends \in ClockReadings(delta_time) : Update(delta_time, ends)
    \/ Jump
    \/ \E obs \in PlaceInputs, loads \in BOOLEAN : Place(obs, loads)
    \/ Tick
    \/ ClearSpriteCache
    \/ KeyUp
    \/ KeyDown
    \/ \E loads \in EngineReadable : ResetButton(loads)

SpecGame == InitEngine /\ [][NextGame]_vars

(***************************************************************************)
(* Properties of the tree.                                                 *)
(***************************************************************************)
Abs(i) == IF i < 0 THEN -i ELSE i

Live == Reach(nodes, root)

\* the (key, payload) pairs the tree holds
Entries == {<<nodes[n].key, nodes[n].obstacle>> : n \in Live}

\* the same three, of the state after a step
KeySetAfter == Range(inorderTraversal(nodes', root'))
LiveAfter == Reach(nodes', root')
EntriesAfter == {<<nodes'[n].key, nodes'[n].obstacle>> : n \in LiveAfter}

TreeUnchanged == root' = root /\ nodes' = nodes

\* C1: after every completed insert or delete, the left and right subtrees
\* of every node differ in structurally computed height by at most 1.
C1_Balanced ==
    \A n \in Live :
        Abs(RealHeight(nodes, nodes[n].left) - RealHeight(nodes, nodes[n].right)) <= 1

\* C1 witness: a call ended with a node whose subtrees differ in height by 2
\* or more
C1_Witness ==
    /\ last.op \in {"insert", "delete"}
    /\ \E n \in Live :
           Abs(RealHeight(nodes, nodes[n].left) - RealHeight(nodes, nodes[n].right)) >= 2

\* C2: after every completed insert or delete, every node's cached height
\* is 1 + max of the actual heights of its children (a missing child 0).
C2_HeightsCached ==
    \A n \in Live :
        nodes[n].height =
            1 + Max(RealHeight(nodes, nodes[n].left), RealHeight(nodes, nodes[n].right))

\* C2 witness: a two-children delete that spliced its predecessor out ended
\* with a leaf whose cached height is 2
C2_Witness ==
    /\ last.op = "delete"
    /\ last.case = "two children, predecessor spliced out"
    /\ \E n \in Live :
           /\ nodes[n].left = Nil
           /\ nodes[n].right = Nil
           /\ nodes[n].height = 2

\* the order of the coordinate keys: x first, then y
Before(a, b) == a[1] < b[1] \/ (a[1] = b[1] /\ a[2] < b[2])

\* C3: the in-order traversal yields strictly increasing keys under the
\* order x first, then y; so no two nodes carry the same key.
C3_InorderStrictlyIncreasing ==
    LET s == inorderTraversal(nodes, root) IN
    /\ \A i \in 1..(Len(s) - 1) : Before(s[i], s[i + 1])
    /\ \A n, m \in DOMAIN nodes : nodes[n].key = nodes[m].key => n = m

\* C3 witness: a delete left four or more nodes, two of them tying on x
C3_Witness ==
    /\ last.op = "delete"
    /\ Cardinality(KeySet) >= 4
    /\ \E a, b \in KeySet : a # b /\ a[1] = b[1]

\* C7: insert of a key already present changes nothing: root, links, cached
\* heights, parent links and the payload stored under the key stay.
C7_DuplicateInsertNoMutation ==
    [][(last'.op = "insert" /\ last'.key \in KeySet) => TreeUnchanged]_vars

\* C7 witness: an insert of a present key came with another payload than
\* the stored one
C7_Witness ==
    /\ last.op = "insert"
    /\ last.case = "duplicate"
    /\ last.key \in DOMAIN ledger
    /\ ledger[last.key] # last.arg

\* C8: search(x, y) finds a node exactly for the keys inserted and not
\* deleted since, and the node holds the payload of the insert that added it.
C8_FiniteMap ==
    \A k \in MapKeys :
        LET n == search(root, nodes, k) IN
        /\ (n # Nil) <=> (k \in DOMAIN ledger)
        /\ n # Nil => nodes[n].key = k /\ nodes[n].obstacle = ledger[k]

\* C8 witness: a search returned a node holding the second payload while
\* three keys were present
C8_Witness ==
    /\ last.op = "search"
    /\ last.ret # Nil
    /\ nodes[last.ret].obstacle = "q"
    /\ Cardinality(DOMAIN ledger) >= 3

\* C9: delete of a present key removes exactly that key: the key set loses
\* it and nothing else, no node is lost or duplicated, and the other keys
\* keep their payloads.
C9_DeleteRemovesExactlyKey ==
    [][(last'.op = "delete" /\ last'.key \in KeySet) =>
          /\ KeySetAfter = KeySet \ {last'.key}
          /\ EntriesAfter = {e \in Entries : e[1] # last'.key}
          /\ Cardinality(LiveAfter) = Cardinality(Live) - 1
          /\ DOMAIN nodes' = LiveAfter]_vars

\* C9 witness: a two-children delete whose predecessor was spliced out of a
\* deeper place
C9_Witness ==
    /\ last.op = "delete"
    /\ last.case = "two children, predecessor spliced out"

\* C10: search for an absent key (or on the empty tree) returns None, and
\* delete of an absent key (or on the empty tree) leaves the tree as it was.
C10_AbsenceIsNoError ==
    [][/\ (last'.op = "search" /\ last'.key \notin KeySet) => last'.ret = Nil
       /\ (last'.op = "delete" /\ last'.key \notin KeySet) => TreeUnchanged]_vars

\* C10 witness: a delete of an absent key on a tree of three or more nodes
C10_Witness ==
    /\ last.op = "delete"
    /\ last.case = "absent"
    /\ Cardinality(KeySet) >= 3

(***************************************************************************)
(* Properties of the obstacle manager.                                     *)
(***************************************************************************)
\* the key (float(x), int(y)) of the i-th entry of the active list
ActiveKey(i) == CoordKey(active[i].x, active[i].y)

ActiveKeys == {ActiveKey(i) : i \in 1..Len(active)}

\* C4: after any spawn_obstacle, remove_by_coords or load_from_list, the
\* keys (float(x), int(y)) of the active list's entries are pairwise
\* distinct and are exactly the keys of the tree's nodes, one node each.
C4_ListMirrorsTree ==
    /\ \A i, j \in 1..Len(active) : ActiveKey(i) = ActiveKey(j) => i = j
    /\ ActiveKeys = KeySet
    /\ Cardinality(Live) = Len(active)

\* C4 witness: a removal took a node out of the tree, and the list still has
\* the entry of that node's key
C4_Witness ==
    /\ last.op = "remove"
    /\ last.case = "present"
    /\ last.ret = TRUE
    /\ last.key \in ActiveKeys
    /\ last.key \notin KeySet

\* C5: remove_by_coords at a coordinate where no obstacle is active returns
\* False and leaves the tree and the active list as they were.
C5_AbsentRemoveReturnsFalse ==
    [][(last'.op = "remove" /\ last'.key \notin ActiveKeys) =>
          /\ last'.ret = FALSE
          /\ TreeUnchanged
          /\ active' = active]_vars

\* C5 witness: a removal at a coordinate the tree does not hold returned True
C5_Witness ==
    /\ last.op = "remove"
    /\ last.case = "absent"
    /\ last.ret = TRUE
    /\ Len(active) >= 1

\* C6: spawn_obstacle of a record whose key is in the tree returns False and
\* leaves tree, active list and sprite cache as they were.
C6_DuplicateSpawnRejected ==
    [][(last'.op = "spawn" /\ last'.key \in KeySet) =>
          /\ last'.ret = FALSE
          /\ TreeUnchanged
          /\ active' = active
          /\ cache' = cache]_vars

\* C6 witness: a spawn was accepted, and the tree holds its key in two nodes
C6_Witness ==
    /\ last.op = "spawn"
    /\ last.ret = TRUE
    /\ \E a, b \in Live :
           a # b /\ nodes[a].key = last.key /\ nodes[b].key = last.key

\* C11: insert returns true exactly when it added a node and delete returns
\* true exactly when it removed one; both results are booleans.
C11_MutatorsReportChange ==
    [][/\ last'.op = "insert" =>
            /\ last'.ret # None
            /\ (last'.ret = TRUE) <=> (last'.key \notin KeySet)
       /\ last'.op = "delete" =>
            /\ last'.ret # None
            /\ (last'.ret = TRUE) <=> (last'.key \in KeySet)]_vars

\* C11 witness: an insert added a node, a delete removed one, and neither
\* call gave a boolean back
C11_Witness ==
    /\ last.op \in {"insert", "delete"}
    /\ last.case \notin {"duplicate", "absent"}
    /\ last.ret = None
    /\ Cardinality(KeySet) >= 2

\* x of a stored obstacle and of a camera position, in halves
XHalves(v) == IF v.t = "int" THEN 2 * v.n ELSE v.n

\* the obstacle lies in the window [s, s + w], both ends included; an x that
\* is a NaN lies in no window
InWindow(o, s, w) ==
    /\ ~IsNaN(XHalves(o.x))
    /\ XHalves(s) <= XHalves(o.x) /\ XHalves(o.x) <= XHalves(s) + 2 * w

\* C12: get_visible returns exactly the active obstacles with
\* camera_x <= x <= camera_x + screen_width, each once, in the order of the
\* active list, which is the order of the spawns; the set returned depends
\* on the set of active obstacles only; the call changes nothing.
C12_VisibleIsWindow ==
    [][/\ last'.op = "visible" =>
            /\ last'.ret = SelectSeq(active,
                                     LAMBDA o : InWindow(o, last'.arg[1], last'.arg[2]))
            /\ Range(last'.ret) =
                   {o \in Range(active) : InWindow(o, last'.arg[1], last'.arg[2])}
            /\ TreeUnchanged
            /\ active' = active
            /\ cache' = cache
       /\ (last'.op = "spawn" /\ last'.ret = TRUE) =>
            active' = Append(active, last'.arg)
       /\ last'.op = "remove" =>
            active' = SelectSeq(active,
                                LAMBDA o : \/ CoordKey(o.x, o.y) # last'.key
                                           \/ IsNaN(last'.key[1]))]_vars

\* C12 witness: a window that ends exactly on one obstacle and starts exactly
\* on another returned both and left a third one out
C12_Witness ==
    /\ last.op = "visible"
    /\ Len(last.ret) = 2
    /\ Len(active) = 3
    /\ XHalves(last.ret[1].x) = XHalves(last.arg[1]) + 2 * last.arg[2]
    /\ XHalves(last.ret[2].x) = XHalves(last.arg[1])

\* the in-order walk of the tree restricted to the keys with x in [s, s + w]:
\* the payloads it selects, in key order
RECURSIVE RangeWalk(_, _, _, _)
RangeWalk(N, node, s, w) ==
    IF node = Nil THEN <<>>
    ELSE RangeWalk(N, N[node].left, s, w)
             \o (IF /\ ~IsNaN(N[node].key[1])
                    /\ XHalves(s) <= N[node].key[1]
                    /\ N[node].key[1] <= XHalves(s) + 2 * w
                 THEN <<N[node].obstacle>> ELSE <<>>)
             \o RangeWalk(N, N[node].right, s, w)

\* C13: for every window, the linear scan of the active list by get_visible
\* and the in-order range walk of the tree select the same set of obstacles.
C13_ScanEqualsRangeWalk ==
    \A s \in CameraXs, w \in 0..MaxWidth :
        Range(get_visible(Here, s, w)) = Range(RangeWalk(nodes, root, s, w))

\* C13 witness: a scan has returned its obstacles, and the range walk of the
\* tree for the same window selects one the scan did not return
C13_Witness ==
    /\ last.op = "visible"
    /\ Len(last.ret) >= 1
    /\ \E o \in Range(RangeWalk(nodes, root, last.arg[1], last.arg[2])) :
           o \notin Range(last.ret)

\* the manager after spawn_obstacle(obs) in the current state, and after
\* the remove_by_coords at obs's coordinates that follows it
AfterSpawn(obs, loads) == spawn_obstacle(Here, obs, loads)
AfterRoundTrip(obs, loads) ==
    remove_by_coords(AfterSpawn(obs, loads).m, obs.x, obs.y)

KeysOf(m) == Range(inorderTraversal(m.N, m.root))

\* C14: spawn_obstacle of a well-formed obstacle at a free coordinate returns
\* True and adds one entry to the list and one node to the tree; the
\* remove_by_coords at the same coordinates that follows returns True and
\* gives back the active list and the key set of before.
C14_SpawnRemoveRoundTrip ==
    \A obs \in WellFormed, loads \in BOOLEAN :
        CoordKey(obs.x, obs.y) \notin KeySet =>
            /\ AfterSpawn(obs, loads).ret = TRUE
            /\ AfterSpawn(obs, loads).m.active = Append(active, obs)
            /\ KeysOf(AfterSpawn(obs, loads).m) = KeySet \cup {CoordKey(obs.x, obs.y)}
            /\ Cardinality(Reach(AfterSpawn(obs, loads).m.N, AfterSpawn(obs, loads).m.root))
                   = Cardinality(Live) + 1
            /\ AfterRoundTrip(obs, loads).ret = TRUE
            /\ AfterRoundTrip(obs, loads).m.active = active
            /\ KeysOf(AfterRoundTrip(obs, loads).m) = KeySet

\* C14 witness: a spawn ended in a state of two obstacles where a round trip
\* at a free coordinate rotates the tree and so gives back the key set under
\* another root
C14_Witness ==
    /\ last.op = "spawn"
    /\ last.ret = TRUE
    /\ Len(active) = 2
    /\ \E obs \in WellFormed :
          /\ CoordKey(obs.x, obs.y) \notin KeySet
          /\ obs.y = FloatVal(3)
          /\ AfterRoundTrip(obs, FALSE).m.root # root

\* a record whose coordinate fields are both numbers
Numeric(obs) == obs.x.t \in {"int", "float"} /\ obs.y.t \in {"int", "float"}

\* a number that is no NaN, and one without a fraction
Finite(v) == v.t = "int" \/ (v.t = "float" /\ ~IsNaN(v.n))
Integral(v) == v.t = "int" \/ (v.t = "float" /\ ~IsNaN(v.n) /\ v.n % 2 = 0)

\* a coordinate pair the specification calls well-formed: x a finite number,
\* y a number without a fraction
ValidCoords(obs) == Numeric(obs) /\ Finite(obs.x) /\ Integral(obs.y)

\* the records of a batch that a load has to take in, in order: the
\* well-formed ones whose key is neither in the tree nor earlier in the batch
RECURSIVE Accepted(_, _)
Accepted(b, seen) ==
    IF b = <<>> THEN <<>>
    ELSE IF ValidCoords(Head(b)) /\ CoordKey(Head(b).x, Head(b).y) \notin seen
         THEN <<Head(b)>> \o Accepted(Tail(b), seen \cup {CoordKey(Head(b).x, Head(b).y)})
         ELSE Accepted(Tail(b), seen)

\* C15: load_from_list never gives up on a bad record: after the call the
\* tree and the list hold, besides what they held, exactly the batch's
\* well-formed records whose key was not present before them (the first of
\* the records with one key); malformed and duplicate records are skipped
\* and the records after a skipped one are processed.
C15_LoadSkipsAndContinues ==
    \A b \in Batches, loads \in Readable :
        /\ load_from_list(Here, b, loads).active = active \o Accepted(b, KeySet)
        /\ KeysOf(load_from_list(Here, b, loads)) =
               KeySet \cup {CoordKey(o.x, o.y) : o \in Range(Accepted(b, KeySet))}

\* C15 witness: a load of two records ended with both of them active, one
\* of them not well-formed
C15_Witness ==
    /\ last.op = "load"
    /\ last.arg = 2
    /\ Len(active) = 2
    /\ \E i \in 1..2 : ~ValidCoords(active[i])
    /\ \E i \in 1..2 : ValidCoords(active[i])

\* C16: spawn_obstacle of a record whose x is missing, no number or not
\* finite, or whose y is missing, no number or not integral, returns False
\* and leaves tree, active list and sprite cache as they were.
C16_RejectsMalformed ==
    [][(last'.op = "spawn" /\ ~ValidCoords(last'.arg)) =>
          /\ last'.ret = FALSE
          /\ TreeUnchanged
          /\ active' = active
          /\ cache' = cache]_vars

\* C16 witness: a record with y = 1.5 was taken in under the key y = 1
C16_Witness ==
    /\ last.op = "spawn"
    /\ last.arg.y = FloatVal(3)
    /\ last.ret = TRUE
    /\ last.key[2] = 1
    /\ last.arg \in Range(active)

\* C17: when spawn_obstacle has inserted the obstacle and the load of its
\* sprite gives nothing, the call still returns True, the obstacle is in
\* the tree and at the end of the list, and the cache is as it was.
C17_FailedSpriteKeepsInsertion ==
    [][\A obs \in ObstacleInputs :
          (Spawn(obs, FALSE) /\ SpawnCase(Here, obs) = "inserted") =>
              /\ last'.ret = TRUE
              /\ active' = Append(active, obs)
              /\ KeySetAfter = KeySet \cup {CoordKey(obs.x, obs.y)}
              /\ \E n \in LiveAfter : nodes'[n].obstacle = obs
              /\ cache' = cache]_vars

\* C17 witness: an obstacle was inserted whose sprite is not in the cache
\* after the call
C17_Witness ==
    /\ last.op = "spawn"
    /\ last.case = "inserted"
    /\ last.ret = TRUE
    /\ Truthy(last.arg.sprite)
    /\ last.arg.sprite \notin DOMAIN cache
    /\ last.arg \in Range(active)
    /\ Len(active) >= 2


(***************************************************************************)
(* Properties of the engine.                                               *)
(***************************************************************************)
\* the sprites of the active obstacles
ActiveSprites == {active[i].sprite : i \in 1..Len(active)}

\* C18: the sprite cache only grows: no spawn_obstacle, remove_by_coords,
\* load_from_list, get_visible or reset (nor any other call but
\* clearSpriteCache, which the claim does not name) removes a cache entry or
\* replaces the surface stored under a key already there; removing an
\* obstacle leaves the entry of its sprite.
C18_CacheOnlyGrows ==
    [][last'.op # "clear_cache" =>
          \A p \in DOMAIN cache : p \in DOMAIN cache' /\ cache'[p] = cache[p]]_vars

\* C18 witness: the rock was removed and no active obstacle uses its sprite
\* any more, while the cache holds the sprite under both spellings.
C18_Witness ==
    /\ last.op = "remove"
    /\ last.case = "present"
    /\ last.key = CoordKey(RockAt60.x, RockAt60.y)
    /\ RockAt60.sprite \notin ActiveSprites
    /\ {"a.png", "./a.png"} \subseteq DOMAIN cache

\* C19: can_place_obstacle is a read-only query: whatever its arguments and
\* the state of the engine, the tree, the active list, the sprite cache and
\* the engine are after the call what they were before it.
C19_CanPlaceReadOnly ==
    [][last'.op = "can_place" => UNCHANGED <<root, nodes, active, cache, engine>>]_vars

\* C19 witness: a query inside the road was answered False because an active
\* obstacle is in the way, with two or more obstacles and a sprite loaded.
C19_Witness ==
    /\ last.op = "can_place"
    /\ last.ret = FALSE
    /\ WithinRoad(engine, last.arg[1], last.arg[2])
    /\ Len(active) >= 2
    /\ DOMAIN cache # {}

\* the candidates asked about: positions on and beside the edges of the road
\* and of the obstacles' hitboxes, whole pixels and the half pixels 2.5, 6.5
\* and 32.5 (the callers pass car.x plus the mouse offset), margins 0 and 4.0
GridXs ==
    {IntVal(n) : n \in {-1, 0, 2, 3, 6, 7, 57, 58, 100, 101}}
        \cup {FloatVal(h) : h \in {5, 13, 65}}
GridYs == {IntVal(n) : n \in {30, 31, 82, 83, 90, 91, 500, 501}}
GridTypes == {"cone", "hole", "rock"}

\* (x, y) lies on the road, bounds included; coordinates in halves
OnRoad(x, y) ==
    /\ ToFloat(x).val \in (2 * engine.road_x_min)..(2 * engine.road_x_max)
    /\ ToFloat(y).val \in (2 * engine.road_y_min)..(2 * engine.road_y_max)

\* the default size of a candidate of the type
TypeSize(t) ==
    CASE t = "cone" -> [w |-> 24, h |-> 24]
      [] t = "hole" -> [w |-> 40, h |-> 16]
      [] OTHER -> [w |-> 24, h |-> 24]

\* a box [x1, x2) x [y1, y2), in halves
Box(x1, x2, y1, y2) == [x1 |-> x1, x2 |-> x2, y1 |-> y1, y2 |-> y2]

\* the candidate's box: its default size, growing up from the baseline y and
\* right from x, enlarged by margin on every side
CandidateBox(x, y, margin, t) ==
    Box(ToFloat(x).val - ToFloat(margin).val,
        ToFloat(x).val + 2 * TypeSize(t).w + ToFloat(margin).val,
        ToFloat(y).val - 2 * TypeSize(t).h - ToFloat(margin).val,
        ToFloat(y).val + ToFloat(margin).val)

\* the box of the hitbox the engine gives an active obstacle
HitBox(obs) ==
    LET r == _get_obstacle_hitbox(engine, Here, obs)
    IN  Box(2 * r.left, 2 * (r.left + r.w), 2 * r.top, 2 * (r.top + r.h))

\* the boxes share area
Overlap(a, b) ==
    /\ a.x1 < b.x2 /\ b.x1 < a.x2
    /\ a.y1 < b.y2 /\ b.y1 < a.y2

\* some active obstacle's hitbox overlaps the candidate's box
InTheWay(x, y, margin, t) ==
    \E i \in 1..Len(active) :
        /\ HasHitbox(active[i])
        /\ Overlap(CandidateBox(x, y, margin, t), HitBox(active[i]))

\* C20: can_place_obstacle(x, y, margin, obstacle_type) returns False when
\* (x, y) lies outside the road bounds [x_min, x_max] x [y_min, y_max] and
\* when the candidate's box (default size of its type, enlarged by margin)
\* overlaps the hitbox of an active obstacle; it returns True only when
\* neither is the case.
C20_CanPlaceResult ==
    \A x \in GridXs, y \in GridYs, margin \in Margins, t \in GridTypes :
        can_place_obstacle(GameHere, x, y, margin, t).ret
            = (OnRoad(x, y) /\ ~InTheWay(x, y, margin, t))

\* C20 witness: a query on the road was answered True while the hitbox of an
\* active obstacle overlaps the candidate's box.
C20_Witness ==
    /\ last.op = "can_place"
    /\ last.ret = TRUE
    /\ Len(active) >= 2
    /\ OnRoad(last.arg[1], last.arg[2])
    /\ InTheWay(last.arg[1], last.arg[2], last.arg[3], last.arg[4])

\* C21: reset() rebuilds tree and list together: after it both hold exactly
\* the obstacles of the configuration batch read again, those placed at run
\* time gone from both and those removed earlier back in both.
C21_ResetRebuildsBoth ==
    [][last'.op = "reset" =>
          /\ active' = engine'.obstacles_data
          /\ EntriesAfter = {<<CoordKey(o.x, o.y), o>> : o \in Range(engine'.obstacles_data)}
          /\ Cardinality(LiveAfter) = Len(engine'.obstacles_data)]_vars

\* C21 witness: reset() ended; before it an obstacle placed at run time was
\* active and one of the configuration had been removed.
C21_Witness ==
    /\ last.op = "reset"
    /\ last.case = "restored"
    /\ Len(active) = 2

(***************************************************************************)
(* Properties of the game.                                                 *)
(***************************************************************************)
\* the screen-space right edge of an obstacle, x - car.x + camera_offset +
\* width, in halves
ScreenRight(obs) ==
    ToFloat(obs.x).val - 2 * engine.car.x + 2 * engine.camera_offset
        + 2 * HitboxSize(Here, obs)[1]

\* C22: after an update made in state RUNNING no active obstacle is left
\* whose screen-space right edge is less than 0: what the car has left
\* fully behind the left edge of the screen is removed.
C22_OffScreenCleaned ==
    (last.op = "update" /\ last.case = RUNNING) =>
        \A k \in 1..Len(active) : ScreenRight(active[k]) >= 0

\* C22 witness: an update in state RUNNING ended with the car past an
\* active obstacle by more than the obstacle's width and the camera offset.
C22_Witness ==
    /\ last.op = "update"
    /\ last.case = RUNNING
    /\ \E k \in 1..Len(active) :
           ToFloat(active[k].x).val + 2 * HitboxSize(Here, active[k])[1]
               + 2 * engine.camera_offset < 2 * engine.car.x

\* the visible obstacles whose hitbox overlaps the car's once the car has
\* moved by the update of delta_time seconds
Touched(delta_time) ==
    {obs \in Range(get_visible(Here, FloatVal(2 * MoveCar(engine, delta_time).car.x),
                               engine.screen_width)) :
        Hits(MoveCar(engine, delta_time), Here, MoveCar(engine, delta_time).car, obs)}

\* those of them that the update removed from the active list
TouchedAndRemoved(delta_time) ==
    {obs \in Touched(delta_time) : obs \notin Range(active')}

\* the damages of a set of obstacles added up
RECURSIVE DamageSum(_)
DamageSum(S) ==
    IF S = {} THEN 0
    ELSE (CHOOSE obs \in S : TRUE).damage + DamageSum(S \ {CHOOSE obs \in S : TRUE})

\* no clock reading of the update found the invulnerability window over
WindowStays(ends) == \A i \in DOMAIN ends : ~ends[i]

\* C23: in an update, a visible obstacle whose hitbox overlaps the car's is
\* removed from tree and list exactly when the collision lowered the car's
\* energy: the energy falls by the damages of the obstacles removed and by
\* nothing else (floor 0), each obstacle removed has a damage above 0 and
\* leaves the tree, the overlapping ones not removed stay in the tree, and
\* an overlap while the car jumps, while the invulnerability window stays
\* open or with damage 0 removes nothing; as long as the window opened by a
\* hit stays open, the update removes at most one obstacle.
C23_RemovedIffDamaged ==
    [][(last'.op = "update" /\ last'.case = RUNNING) =>
          /\ engine'.car.energy
                 = Max(0, engine.car.energy - DamageSum(TouchedAndRemoved(last'.arg[1])))
          /\ TouchedAndRemoved(last'.arg[1]) = {} => engine'.car.energy = engine.car.energy
          /\ \A obs \in TouchedAndRemoved(last'.arg[1]) :
                 /\ obs.damage > 0
                 /\ engine'.car.energy < engine.car.energy
                 /\ CoordKey(obs.x, obs.y) \notin KeySetAfter
          /\ \A obs \in Touched(last'.arg[1]) \ TouchedAndRemoved(last'.arg[1]) :
                 CoordKey(obs.x, obs.y) \in KeySetAfter
          /\ WindowStays(last'.arg[2])
                 => Cardinality(TouchedAndRemoved(last'.arg[1])) <= 1
          /\ (\/ engine'.car.is_jumping /\ engine'.car.jump_remaining > 0
              \/ engine.car.last_hit_time = 1 /\ WindowStays(last'.arg[2])
              \/ \A obs \in Touched(last'.arg[1]) : obs.damage = 0)
                 => TouchedAndRemoved(last'.arg[1]) = {}]_vars

\* C23 witness: an update in state RUNNING did damage, and an obstacle that
\* would do damage still overlaps the car and is active.
C23_Witness ==
    /\ last.op = "update"
    /\ last.case = RUNNING
    /\ engine.car.energy < engine.car.energy_max
    /\ engine.car.last_hit_time = 1
    /\ \E obs \in Range(get_visible(Here, FloatVal(2 * engine.car.x), engine.screen_width)) :
           Hits(engine, Here, engine.car, obs) /\ obs.damage > 0

\* the obstacle has both coordinates, the engine is in GOD_MODE and
\* can_place_obstacle holds for its coordinates and type in this state
MayPlace(obs) ==
    /\ obs.x.t # "absent" /\ obs.y.t # "absent"
    /\ engine.state = GOD_MODE
    /\ can_place_obstacle(GameHere, FloatVal(ToFloat(obs.x).val),
                          IntVal(ToInt(obs.y).val), FloatVal(8), obs.type).ret

\* C24: place_obstacle returns True and adds the obstacle to tree and list
\* only when the engine is in GOD_MODE and can_place_obstacle holds for the
\* obstacle's coordinates and type in the state before; in every other case
\* it returns False, and whenever it returns False tree and list are
\* unchanged.
C24_PlaceValidatesFirst ==
    [][last'.op = "place" =>
          /\ last'.case # "raised"
          /\ last'.ret = TRUE =>
                 /\ MayPlace(last'.arg)
                 /\ active' = Append(active, last'.arg)
                 /\ EntriesAfter = Entries \cup
                        {<<CoordKey(last'.arg.x, last'.arg.y), last'.arg>>}
                 /\ Cardinality(LiveAfter) = Cardinality(Live) + 1
          /\ ~MayPlace(last'.arg) => last'.ret = FALSE
          /\ last'.ret = FALSE => active' = active /\ TreeUnchanged]_vars

\* C24 witness: a placement in GOD_MODE, next to active obstacles, ended
\* with an exception.
C24_Witness ==
    /\ last.op = "place"
    /\ last.case = "raised"
    /\ engine.state = GOD_MODE
    /\ Len(active) >= 2

(***************************************************************************)
(* The scenarios of tests/testAvlTree.py                                   *)
(***************************************************************************)
\* the key of a node, Nil for no node
KeyOf(N, node) == IF node = Nil THEN Nil ELSE N[node].key

\* the first n calls of the test have all been made, and no other
RanFirst(n) == script.pos = n /\ script.ran = 1..n

\* C25: after inserting (30,1), (20,2), (10,3) in that order into an empty
\* tree, the root is (20,2), its left child (10,3) and its right child (30,1).
C25_ScenarioA ==
    RanFirst(3) =>
        /\ KeyOf(nodes, root) = <<20, 2>>
        /\ KeyOf(nodes, nodes[root].left) = <<10, 3>>
        /\ KeyOf(nodes, nodes[root].right) = <<30, 1>>

\* the third insert has been made and printed its LL rotation at (30,1)
C25_Witness ==
    /\ RanFirst(3)
    /\ last.op = "insert" /\ last.key = <<10, 3>>
    /\ last.case = << <<"LL", <<30, 1>> >> >>

\* C26: continuing, the insert of (40,4) rotates nothing and the insert of
\* (50,5) makes one left rotation, at (30,1); after it (40,4) is the root's
\* right child with children (30,1) and (50,5), and the root is still (20,2).
C26_ScenarioB ==
    /\ RanFirst(4) => last.case = <<>> /\ KeyOf(nodes, root) = <<20, 2>>
    /\ RanFirst(5) =>
        /\ last.case = << <<"RR", <<30, 1>> >> >>
        /\ KeyOf(nodes, root) = <<20, 2>>
        /\ KeyOf(nodes, nodes[root].left) = <<10, 3>>
        /\ KeyOf(nodes, nodes[root].right) = <<40, 4>>
        /\ KeyOf(nodes, nodes[nodes[root].right].left) = <<30, 1>>
        /\ KeyOf(nodes, nodes[nodes[root].right].right) = <<50, 5>>

\* the fifth insert has been made and (30,1) is no longer the root's child
C26_Witness ==
    /\ RanFirst(5)
    /\ last.op = "insert" /\ last.key = <<50, 5>>
    /\ KeyOf(nodes, nodes[root].right) # <<30, 1>>

(***************************************************************************)
(* Deleting a node that has two children                                   *)
(***************************************************************************)
\* the node at the place nodeToDelete had in `before`, looked up in t
AtPlaceOf(before, nodeToDelete, t) ==
    IF before[nodeToDelete].parent = Nil THEN t.root
    ELSE IF before[before[nodeToDelete].parent].left = nodeToDelete
         THEN t.N[before[nodeToDelete].parent].left
         ELSE t.N[before[nodeToDelete].parent].right

\* the greatest key of the tree smaller than k
KeyBefore(k) ==
    CHOOSE p \in KeySet :
        /\ KeyLt(p, k)
        /\ \A q \in KeySet : KeyLt(q, k) => q = p \/ KeyLt(q, p)

AllButLast(s) == SubSeq(s, 1, Len(s) - 1)

\* a delete of a key held by a node with two children
TwoChildrenDelete ==
    /\ last'.op = "delete"
    /\ last'.case \in {"two children, predecessor spliced out",
                       "two children, predecessor is the left child"}

\* the node put in place of nodeToDelete, and what it carries
PlacedIsPredecessor(t, nodeToDelete, k) ==
    /\ AtPlaceOf(t.N, nodeToDelete, Grafted(t, nodeToDelete)) # Nil
    /\ KeyOf(Grafted(t, nodeToDelete).N,
             AtPlaceOf(t.N, nodeToDelete, Grafted(t, nodeToDelete))) = KeyBefore(k)
    /\ Grafted(t, nodeToDelete).N[AtPlaceOf(t.N, nodeToDelete,
                                            Grafted(t, nodeToDelete))].right
         = t.N[nodeToDelete].right
    /\ inorderTraversal(Grafted(t, nodeToDelete).N, t.N[nodeToDelete].right)
         = inorderTraversal(t.N, t.N[nodeToDelete].right)
    /\ inorderTraversal(
           Grafted(t, nodeToDelete).N,
           Grafted(t, nodeToDelete).N[AtPlaceOf(t.N, nodeToDelete,
                                                Grafted(t, nodeToDelete))].left)
         = AllButLast(inorderTraversal(t.N, t.N[nodeToDelete].left))

\* imbalanceCases rotates nothing at the place the predecessor was put
NoRotationAtPlace(t, nodeToDelete) ==
    ImbalanceCase(
        UpdateHeight(Grafted(t, nodeToDelete).N,
                     AtPlaceOf(t.N, nodeToDelete, Grafted(t, nodeToDelete))),
        AtPlaceOf(t.N, nodeToDelete, Grafted(t, nodeToDelete))) = "none"

\* C27: a delete of a node with two children puts the node with the greatest
\* smaller key at the deleted node's place (same parent and side, or the
\* root), with the deleted node's right subtree and its left subtree less
\* the predecessor; when nothing is rotated at that place, the predecessor
\* is the node at that place when delete returns.
C27_TwoChildrenPredecessor ==
    [][TwoChildrenDelete =>
         /\ PlacedIsPredecessor(Tree(root, nodes),
                                search(root, nodes, last'.key), last'.key)
         /\ NoRotationAtPlace(Tree(root, nodes), search(root, nodes, last'.key))
              => KeyOf(nodes', AtPlaceOf(nodes, search(root, nodes, last'.key),
                                         Tree(root', nodes')))
                   = KeyBefore(last'.key)]_vars

\* a two-children delete whose predecessor was spliced out from deeper in
\* the left subtree has ended, and the predecessor's key is at the root
C27_Witness ==
    /\ last.op = "delete"
    /\ last.case = "two children, predecessor spliced out"
    /\ root # Nil
    /\ nodes[root].left # Nil /\ nodes[root].right # Nil
    /\ KeyLt(nodes[root].key, last.key)
    /\ \A q \in KeySet : KeyLt(q, last.key) => q = nodes[root].key \/ KeyLt(q, nodes[root].key)

(***************************************************************************)
(* Parent back-references                                                  *)
(***************************************************************************)
ParentOfChild(N, n, c) == c # Nil => N[c].parent = n

\* C28: after every insert and delete the root's parent is None and the
\* parent of every child of a node n is n.
C28_ParentsMatchChildren ==
    /\ root # Nil => nodes[root].parent = Nil
    /\ \A n \in Reach(nodes, root) :
          /\ ParentOfChild(nodes, n, nodes[n].left)
          /\ ParentOfChild(nodes, n, nodes[n].right)

\* a delete of a node with two children has ended in a tree of three levels
C28_Witness ==
    /\ last.op = "delete"
    /\ last.case = "two children, predecessor spliced out"
    /\ RealHeight(nodes, root) >= 3

(***************************************************************************)
(* Obstacle records are stored and dropped, never changed                  *)
(***************************************************************************)
\* the obstacle records the tree holds
StoredIn(N, rt) == {N[n].obstacle : n \in Reach(N, rt)}

\* the records the step's call was given: the argument of place_obstacle,
\* the configuration's obstacle list for the calls that load it
HandedIn ==
    IF last'.op = "place" THEN {last'.arg}
    ELSE IF last'.op \in {"reset", "start", "reset_button"}
         THEN Range(engine.config.obstacles)
    ELSE {}

\* the record the tree holds under a key is the one it held before
SameUnderKey ==
    \A a \in Reach(nodes, root), b \in Reach(nodes', root') :
        nodes[a].key = nodes'[b].key =>
            nodes'[b].obstacle = nodes[a].obstacle \/ nodes'[b].obstacle \in HandedIn

\* C29: no step of the game changes a field of an obstacle record held in
\* the tree or in the active list: every record held after a step was held
\* before it with the same x, y, type, damage and sprite, or is a record
\* the call was given.
C29_ObstaclesNotMutated ==
    [][/\ Range(active') \subseteq Range(active) \cup HandedIn
       /\ StoredIn(nodes', root') \subseteq StoredIn(nodes, root) \cup HandedIn
       /\ SameUnderKey]_vars

\* an update has run while the car overlaps the puddle, which is still
\* held, after an earlier update removed an obstacle that cost energy
C29_Witness ==
    /\ last.op = "update"
    /\ last.case = RUNNING
    /\ PuddleAt90 \in Range(active)
    /\ PuddleAt90 \in StoredIn(nodes, root)
    /\ Hits(engine, Here, engine.car, PuddleAt90)
    /\ engine.car.energy < 100

(***************************************************************************)
(* Height against node count                                               *)
(***************************************************************************)
\* the least number of nodes of an AVL tree of height h
RECURSIVE MinNodes(_)
MinNodes(h) ==
    IF h = 0 THEN 0
    ELSE IF h = 1 THEN 1
    ELSE MinNodes(h - 1) + MinNodes(h - 2) + 1

\* C30: every reachable tree with n nodes and actual height h has
\* n >= N(h), N(0) = 0, N(1) = 1, N(h) = N(h-1) + N(h-2) + 1.
C30_HeightLogarithmic ==
    Cardinality(Reach(nodes, root)) >= MinNodes(RealHeight(nodes, root))

\* a delete of a node with two children has ended in a tree of height 3
C30_Witness ==
    /\ last.op = "delete"
    /\ last.case \in {"two children, predecessor spliced out",
                      "two children, predecessor is the left child"}
    /\ RealHeight(nodes, root) = 3

(***************************************************************************)
(* The walk of _rebalanceUp after a delete                                 *)
(***************************************************************************)
\* the nodes at which _rebalanceUp(node) runs a turn of its loop, in order
RECURSIVE _rebalanceUpVisited(_, _)
_rebalanceUpVisited(t, node) ==
    IF node = Nil THEN <<>>
    ELSE <<node>> \o _rebalanceUpVisited(RebalanceAt(t, node), t.N[node].parent)

(***************************************************************************)
(* A client that builds a tree of twelve keys, level by level, and then    *)
(* makes at most MaxDeletes deletes, of any of the keys.  With all twelve  *)
(* keys in, the tree has height 5 and one delete can rotate twice.         *)
(***************************************************************************)
MaxDeletes == 4

WalkKeys ==
    << <<8, 1>>, <<5, 1>>, <<11, 1>>, <<3, 1>>, <<7, 1>>, <<10, 1>>,
       <<12, 1>>, <<2, 1>>, <<4, 1>>, <<6, 1>>, <<9, 1>>, <<1, 1>> >>

InitWalk ==
    /\ root = Nil
    /\ nodes = <<>>
    /\ active = <<>>
    /\ cache = <<>>
    /\ last = NoCall
    /\ ledger = <<>>
    /\ engine = None
    /\ script = [pos |-> 0, ran |-> {}, deletes |-> 0]

\* tree.insert(x, y, obstacle) of the next key of the build
WalkInsert ==
    /\ script.pos < Len(WalkKeys)
    /\ root' = insert(Tree(root, nodes), WalkKeys[script.pos + 1], "p").root
    /\ nodes' = insert(Tree(root, nodes), WalkKeys[script.pos + 1], "p").N
    /\ last' = Call("insert", WalkKeys[script.pos + 1], "p", None,
                    insertPrinted(Tree(root, nodes), WalkKeys[script.pos + 1], "p"))
    /\ script' = [script EXCEPT !.pos = @ + 1, !.ran = @ \cup {script.pos + 1}]
    /\ UNCHANGED <<active, cache, ledger, engine>>

\* tree.delete(x, y)
WalkDelete(k) ==
    /\ script.pos = Len(WalkKeys)
    /\ script.deletes < MaxDeletes
    /\ root' = delete(Tree(root, nodes), k).root
    /\ nodes' = delete(Tree(root, nodes), k).N
    /\ last' = Call("delete", k, None, None, deletePrinted(Tree(root, nodes), k))
    /\ script' = [script EXCEPT !.deletes = @ + 1]
    /\ UNCHANGED <<active, cache, ledger, engine>>

NextWalk ==
    \/ WalkInsert
    \/ \E k \in Range(WalkKeys) : WalkDelete(k)

SpecWalk == InitWalk /\ [][NextWalk]_vars

\* node and its ancestors up to the root, by the parent fields, nearest first
RECURSIVE PathUp(_, _)
PathUp(N, node) ==
    IF node = Nil THEN <<>> ELSE <<node>> \o PathUp(N, N[node].parent)

\* the cached height of node is the one computed from its children's cached
\* heights
Recomputed(N, node) ==
    N[node].height = 1 + Max(getHeight(N, N[node].left), getHeight(N, N[node].right))

\* one turn of the walk at node: a rotation is made exactly when the balance
\* from the recomputed height is outside [-1, 1], and the subtree's root
\* after the turn hangs where node hung, under the parent read before it
TurnRepairs(t, node) ==
    /\ (imbalanceCases(UpdateHeight(t.N, node), node).r # node)
         <=> (getBalance(UpdateHeight(t.N, node), node) \notin {-1, 0, 1})
    /\ Recomputed(RebalanceAt(t, node).N, node)
    /\ Recomputed(RebalanceAt(t, node).N,
                  imbalanceCases(UpdateHeight(t.N, node), node).r)
    /\ RebalanceAt(t, node).N[imbalanceCases(UpdateHeight(t.N, node), node).r].parent
         = t.N[node].parent
    /\ IF t.N[node].parent = Nil
       THEN RebalanceAt(t, node).root = imbalanceCases(UpdateHeight(t.N, node), node).r
       ELSE imbalanceCases(UpdateHeight(t.N, node), node).r
              \in {RebalanceAt(t, node).N[t.N[node].parent].left,
                   RebalanceAt(t, node).N[t.N[node].parent].right}

\* every turn of _rebalanceUp(node) repairs
RECURSIVE WalkRepairs(_, _)
WalkRepairs(t, node) ==
    IF node = Nil THEN TRUE
    ELSE TurnRepairs(t, node) /\ WalkRepairs(RebalanceAt(t, node), t.N[node].parent)

\* a delete that found its key
FoundDelete == last'.op = "delete" /\ search(root, nodes, last'.key) # Nil

\* the walk of the delete that found its key: the tree and node it starts at
WalkOf(d) == [t |-> WalkTree(Tree(root, nodes), d),
              node |-> WalkStart(Tree(root, nodes), d)]

\* C31: the walk after a delete visits the node named by the delete case and
\* each of its ancestors up to the root, whether or not it has rotated
\* already; at each it rotates exactly when the recomputed balance is outside
\* [-1, 1] and hangs the subtree's new root under the ancestor; when delete
\* returns, that node and all its ancestors, the root included, have a
\* cached height computed from their children's.
C31_WalkReachesRoot ==
    [][FoundDelete =>
         /\ _rebalanceUpVisited(WalkOf(search(root, nodes, last'.key)).t,
                                WalkOf(search(root, nodes, last'.key)).node)
              = PathUp(WalkOf(search(root, nodes, last'.key)).t.N,
                       WalkOf(search(root, nodes, last'.key)).node)
         /\ WalkRepairs(WalkOf(search(root, nodes, last'.key)).t,
                        WalkOf(search(root, nodes, last'.key)).node)
         /\ \A n \in Range(PathUp(nodes', WalkOf(search(root, nodes, last'.key)).node)) :
                n \in Reach(nodes', root') /\ Recomputed(nodes', n)
         /\ root' # Nil => Recomputed(nodes', root')]_vars

\* a delete has ended whose walk rotated at two nodes, the second the root
\* it started under
C31_Witness ==
    /\ last.op = "delete"
    /\ Len(last.case) = 2
    /\ last.case[1][2] # last.case[2][2]
    /\ script.deletes >= 1

(***************************************************************************)
(* The rotation cases of the test's insert sequence                        *)
(***************************************************************************)
\* the insert just made printed one line: case `label` at the node with `key`
PrintedOnly(label, key) == last.case = << <<label, key>> >>

\* C32 as stated: the inserts of (10,3), (50,5), (25,6), (45,7) trigger
\* LL, RR, LR and RL.
C32_LabelledCases ==
    /\ RanFirst(3) => last.case # <<>> /\ last.case[1][1] = "LL"
    /\ RanFirst(5) => last.case # <<>> /\ last.case[1][1] = "RR"
    /\ RanFirst(6) => last.case # <<>> /\ last.case[1][1] = "LR"
    /\ RanFirst(7) => last.case # <<>> /\ last.case[1][1] = "RL"

\* C32, amended: the inserts of (10,3), (50,5) and (45,7) trigger LL at
\* (30,1), RR at (30,1) and RL at (40,4); the insert of (25,6) triggers the
\* right-left double rotation at the root (20,2), which makes (30,1) the
\* root with children (20,2) and (40,4); the left-right case of the
\* sequence is the insert of (9,10), at (10,3).
C32_CasesOfTheSequence ==
    /\ RanFirst(3) => PrintedOnly("LL", <<30, 1>>)
    /\ RanFirst(5) => PrintedOnly("RR", <<30, 1>>)
    /\ RanFirst(6) =>
          /\ PrintedOnly("RL", <<20, 2>>)
          /\ KeyOf(nodes, root) = <<30, 1>>
          /\ KeyOf(nodes, nodes[root].left) = <<20, 2>>
          /\ KeyOf(nodes, nodes[root].right) = <<40, 4>>
          /\ KeyOf(nodes, nodes[nodes[root].left].right) = <<25, 6>>
    /\ RanFirst(7) =>
          /\ PrintedOnly("RL", <<40, 4>>)
          /\ KeyOf(nodes, nodes[root].right) = <<45, 7>>
    /\ RanFirst(9) => PrintedOnly("LR", <<10, 3>>)
    /\ \A n \in {1, 2, 4, 8} : RanFirst(n) => last.case = <<>>

\* the insert of (25,6) has been made after the five before it and rotated
C32_Witness ==
    /\ RanFirst(6)
    /\ last.op = "insert" /\ last.key = <<25, 6>>
    /\ last.case # <<>>
    /\ KeyOf(nodes, root) # <<20, 2>>

(***************************************************************************)
(* No insert and no delete raises                                          *)
(***************************************************************************)
\* some node's cached height is not its subtree's height
StaleHeight == \E n \in Reach(nodes, root) : nodes[n].height # RealHeight(nodes, n)

\* C33: no insert and no delete raises: every rotation imbalanceCases
\* selects from the cached heights, stale or not, finds the child it
\* promotes, and a double rotation the grandchild it promotes first.
C33_NoCallRaises ==
    last.op \in {"insert", "delete"} => last.case # "raised"

\* an insert has added a key to a tree of height 3 or more in which a cached
\* height is stale
C33_Witness ==
    /\ last.op = "insert" /\ last.case = "added"
    /\ StaleHeight
    /\ RealHeight(nodes, root) >= 3

(***************************************************************************)
(* The game's states                                                       *)
(***************************************************************************)
\* the game is finished: the car has no energy left or is at the goal
Finished == ~is_alive(engine.car) \/ engine.car.x >= engine.total_distance

\* C34: a finished game restarts only through a reset: the engine is not in
\* RUNNING with a car that has no energy or has reached total_distance, so
\* no update advances such a car.
C34_RestartOnlyByReset ==
    engine.state = RUNNING => ~Finished

\* the game is over: an update has found the car without energy
C34_Witness ==
    /\ engine.state = GAME_OVER
    /\ last.op = "update"
    /\ ~is_alive(engine.car)

\* C35: update does nothing unless the state is RUNNING: in INIT, PAUSED,
\* GOD_MODE and GAME_OVER it leaves the car, the tree, the active list and
\* the engine's state as they are.
C35_UpdateOnlyWhenRunning ==
    [][last'.op = "update" /\ engine.state # RUNNING =>
          /\ engine' = engine
          /\ root' = root /\ nodes' = nodes
          /\ active' = active
          /\ cache' = cache]_vars

\* update(1) has been called in PAUSED in the middle of a jump, with an
\* obstacle still ahead of the car
C35_Witness ==
    /\ last.op = "update" /\ last.arg[1] = 1
    /\ last.case = PAUSED
    /\ engine.state = PAUSED
    /\ engine.car.is_jumping
    /\ \E i \in 1..Len(active) : ToFloat(active[i].x).val > 2 * engine.car.x

\* an update made in RUNNING ends with the car out of energy or at the goal
UpdateFinishes ==
    /\ last'.op = "update"
    /\ engine.state = RUNNING
    /\ ~is_alive(engine'.car) \/ engine'.car.x >= engine'.total_distance

\* C36: an update in RUNNING that ends with the car's energy at 0 or with
\* car.x >= total_distance leaves the engine in GAME_OVER, and the engine
\* stays in GAME_OVER until start() or reset() is called (the reset button
\* calls both).
C36_GameOverSameFrame ==
    [][/\ UpdateFinishes => engine'.state = GAME_OVER
       /\ engine.state = GAME_OVER
              /\ last'.op \notin {"start", "reset", "reset_button"}
            => engine'.state = GAME_OVER]_vars

\* an update in RUNNING has brought the car to total_distance with energy
\* left, and the engine is in GAME_OVER
C36_Witness ==
    /\ last.op = "update" /\ last.case = RUNNING
    /\ engine.state = GAME_OVER
    /\ is_alive(engine.car)
    /\ engine.car.x >= engine.total_distance

(***************************************************************************)
(* reset() against construction.                                           *)
(***************************************************************************)
\* the engine built again with the arguments and the configuration of the
\* one at hand
Fresh(loads) ==
    GameEngineInit(engine.config, StartX, StartY, ScreenWidth, CameraOffset,
                   cache, loads)

RoadBounds(e) == <<e.road_x_min, e.road_x_max, e.road_y_min, e.road_y_max>>

\* C37: after reset() the road bounds, the car's position and energy and the
\* obstacle set are those of an engine freshly constructed with the same
\* arguments and configuration, and the state is INIT.
C37_ResetRestoresConstruction ==
    last.op = "reset" =>
        \A loads \in EngineReadable :
            /\ engine.state = INIT
            /\ RoadBounds(engine) = RoadBounds(Fresh(loads).e)
            /\ engine.car.x = Fresh(loads).e.car.x
            /\ engine.car.y = Fresh(loads).e.car.y
            /\ engine.car.energy = Fresh(loads).e.car.energy
            /\ Range(active) = Range(Fresh(loads).m.active)

\* reset() was called on a finished game whose configuration has no road
\* section
C37_Witness ==
    /\ last.op = "reset" /\ last.case = GAME_OVER
    /\ engine.state = INIT
    /\ engine.config = ConfigDefault
    /\ engine.car.x = 0

============================================================================
